---- MODULE Spec2Model ----
(***************************************************************************)
(* Dromeport backend: download sessions (main.py stream_download and the   *)
(* two provider generators), the job registry _active_jobs and the cancel  *)
(* handler.                                                                *)
(*                                                                         *)
(* A session is one call of stream_download.  Its generator chain          *)
(* (stream_with_lifecycle around download_ytmusic_stream or                *)
(* _spotiflac_stream) is a process whose position is pc[s]; one action is  *)
(* the code between two suspension points (a yield or an await).  Events   *)
(* delivered to the client are appended to stream[s].  Consecutive yields  *)
(* of plain text with no statement between them that touches shared state  *)
(* are appended by one action.                                             *)
(*                                                                         *)
(* The sync manager (sync.py SyncManager) keeps the Sync Definitions in    *)
(* playlists, their JSON text in file and the scheduler's jobs in jobs.    *)
(* A sync run, scheduled or manual, is a session too: run[s] says which    *)
(* definition it runs, and it drives the same provider generators with a   *)
(* registry of its own.  Spec and SpecCollide are the download sessions,   *)
(* SpecSync the definitions and their triggers over restarts, SpecRun one  *)
(* definition and its runs, SpecClock a definition's trigger over time.    *)
(* SpecSweep is two downloads one after the other and their cancels,      *)
(* SpecTranslate the providers' lines with the patterns each one matches,  *)
(* SpecBuild the configuration a run is started with, SpecPrivate a run    *)
(* beside the clients' cancel requests, SpecOverlap a scheduled and a      *)
(* manual run of one definition, SpecBeside two downloads side by side.    *)
(***************************************************************************)
EXTENDS Integers, Sequences, FiniteSets, TLC

\* ------------------------------------------------------------------ bounds
NSessions   == 2    \* sessions (download requests and sync runs) the model has room for
MaxRequests == 1    \* download requests made in one run under Spec
NCancels  == 1      \* cancel requests that may be in progress at once
MaxLines  == 2      \* raw lines one provider run produces
QueueCap  == 2      \* capacity of output_q, the hand-off queue (2000 in the source, scaled)
NPlaylists == 2     \* Sync Definitions ever added in one run
MaxTime   == 13     \* hours the clock runs for

Sessions   == 1..NSessions
Cancellers == 1..NCancels

NoId   == "none"
JobIds == {"j1", "j2"}           \* values uuid.uuid4() returns
LibPaths == {"/music"}           \* absolute library paths of the requests

\* Request inputs of stream_download.
ConfigInputs   == {"invalid_json", "empty_path", "relative_path", "ok"}
ProviderInputs == {"YouTube Music", "Spotify", "Other"}

\* ------------------------------------------------------------ raw lines
\* A raw line is the rule of the translator it matches; n is the number it
\* carries, 0 when it carries none.
Line(k, n) == [kind |-> k, n |-> n]

\* Lines yt-dlp prints (ytmusic.py:107-150).
YtLines ==
  { Line("items", MaxLines),     \* Playlist X: Downloading N items
    Line("dest", 0),             \* [ExtractAudio] Destination: ...
    Line("error", 0),            \* ERROR: ...
    Line("skipped", 0),          \* [download] has already been downloaded
    Line("other", 0),
    Line("overlong", 0) }        \* a line the stream reader raises on

\* Lines SpotiFLAC prints into output_q (spotify.py:198-244).
SpLines ==
  { Line("start", MaxLines),     \* [i/N] Starting download: ...
    Line("ok", 0),               \* Successfully downloaded using: ...
    Line("failed", 0),           \* [X] Failed all services
    Line("fatal", 0),            \* Error: ...
    Line("other", 0) }

Sentinel     == Line("None", 0)              \* output_q.put(None)
ExceptionMsg == Line("__EXCEPTION__", 0)
CancelledMsg == Line("__CANCELLED__", 0)

\* ---------------------------------------------------------------- events
Log(l)      == [type |-> "log", line |-> l]
Meta(k)     == [type |-> "meta", kind |-> k]
Report(k)   == [type |-> "report", kind |-> k]
JobIdEvent(id) == [type |-> "job_id", value |-> id]
DoneEvent   == [type |-> "DONE"]
\* spotify.py:298-301
StatusEvent(ok, d, e, k) ==
  [type |-> "status", success |-> ok, downloaded |-> d, errors |-> e, skipped |-> k]
\* spotify.py:115
StatusFailedOnly == [type |-> "status", success |-> FALSE]

VARIABLES
  pc,              \* position of each session's generator chain
  provider,        \* provider tag of the session ("none" before the request)
  job_id,          \* job_id = str(uuid.uuid4())
  library_path,    \* config["libraryPath"]
  stream,          \* events delivered to the client, in order
  active_jobs,     \* _active_jobs: job id -> {process, provider, library_path}
  proc,            \* the yt-dlp child process: "none", "running", "exited"
  returncode,      \* process.returncode once it exited
  pipe,            \* lines written to process.stdout and not yet read
  emitted,         \* number of lines the provider has produced so far
  produced,        \* history: the raw lines the provider has printed, in order
  term_sent,       \* SIGTERM delivered to the child
  kill_sent,       \* SIGKILL delivered to the child
  partials,        \* sessions whose download left a .part/.ytdl file on disk
  output_q,        \* output_q of the task-backed provider
  cancel_event,    \* threading.Event shared with _ThreadJobProxy
  worker,          \* the _run thread: "none", "running", "finally", "finished"
  downloaded,      \* downloaded_count / downloaded
  errors,          \* error_count / errors
  skipped,         \* skipped_count / skipped
  total_count,
  had_fatal_error,
  was_cancelled,
  cpc,             \* position of each cancel_download call
  cjob,            \* the job the call looked up, and the id it was asked for
  cresult,         \* what the last call answered
  cancelled_ids,   \* history: the ids cancel_download answered "cancelled" for
  message,         \* the argument of error_stream(message)
  run,             \* the sync run a session belongs to (kind "none": a download request)
  registry,        \* the `registry = {}` local to each sync run
  playlists,       \* SyncManager._playlists: pid -> Sync Definition
  file,            \* what sync_playlists.json holds
  jobs,            \* the scheduler's job store, in the order the jobs were added
  app,             \* the process: "constructed", "running", "startup_failed"
  now,             \* the clock, in hours
  reply,           \* what the last sync endpoint call answered
  fired_at,        \* history: when the job of each pid last fired (Never if it has not)
  created_at,      \* history: when each definition was added
  spotiflac_path   \* SyncManager._spotiflac_path, fixed when the manager is constructed

sessVars == <<pc, provider, job_id, library_path, stream>>
procVars == <<proc, returncode, pipe, emitted, produced, term_sent, kill_sent, partials>>
taskVars == <<output_q, cancel_event, worker>>
countVars == <<downloaded, errors, skipped, total_count, had_fatal_error, was_cancelled>>
cancelVars == <<cpc, cjob, cresult, cancelled_ids>>
storeVars == <<playlists, file, jobs, app, now, reply, fired_at, created_at, spotiflac_path>>
syncVars == <<message, run, registry, storeVars>>
vars == <<sessVars, active_jobs, procVars, taskVars, countVars, cancelVars, syncVars>>

NoJob == [id |-> NoId, process |-> 0, provider |-> "none", library_path |-> ""]
NoResult == [status |-> "none", partial_files_deleted |-> 0]

\* Sync Definitions are numbered in the order uuid4 names them.
Pids  == 1..NPlaylists
Never == -1
NoConfig == [t |-> "none"]
NoRun == [kind |-> "none", pid |-> 0, updates |-> 0, config |-> NoConfig]
NoReply == [op |-> "none", status |-> "none", pid |-> 0]
EmptyDict == [k \in {} |-> NoJob]
NoFile == [exists |-> FALSE, text |-> EmptyDict]

Constructed(path) ==
  /\ pc = [s \in Sessions |-> "idle"]
  /\ provider = [s \in Sessions |-> "none"]
  /\ job_id = [s \in Sessions |-> NoId]
  /\ library_path = [s \in Sessions |-> ""]
  /\ stream = [s \in Sessions |-> << >>]
  /\ active_jobs = EmptyDict
  /\ proc = [s \in Sessions |-> "none"]
  /\ returncode = [s \in Sessions |-> 0]
  /\ pipe = [s \in Sessions |-> << >>]
  /\ emitted = [s \in Sessions |-> 0]
  /\ produced = [s \in Sessions |-> << >>]
  /\ term_sent = [s \in Sessions |-> FALSE]
  /\ kill_sent = [s \in Sessions |-> FALSE]
  /\ partials = {}
  /\ output_q = [s \in Sessions |-> << >>]
  /\ cancel_event = [s \in Sessions |-> FALSE]
  /\ worker = [s \in Sessions |-> "none"]
  /\ downloaded = [s \in Sessions |-> 0]
  /\ errors = [s \in Sessions |-> 0]
  /\ skipped = [s \in Sessions |-> 0]
  /\ total_count = [s \in Sessions |-> 0]
  /\ had_fatal_error = [s \in Sessions |-> FALSE]
  /\ was_cancelled = [s \in Sessions |-> FALSE]
  /\ cpc = [c \in Cancellers |-> "idle"]
  /\ cjob = [c \in Cancellers |-> NoJob]
  /\ cresult = [c \in Cancellers |-> NoResult]
  /\ cancelled_ids = {}
  /\ message = [s \in Sessions |-> ""]
  /\ run = [s \in Sessions |-> NoRun]
  /\ registry = [s \in Sessions |-> EmptyDict]
  \* The first start of the process: no file, so no definition and no job.
  /\ playlists = EmptyDict
  /\ file = NoFile
  /\ jobs = << >>
  /\ app = "running"
  /\ now = 0
  /\ reply = NoReply
  /\ fired_at = [p \in Pids |-> Never]
  /\ created_at = [p \in Pids |-> Never]
  /\ spotiflac_path = path

\* SPOTIFLAC_PATH of the container image (main.py:23, 27).
SpotiflacPath == "/app/SpotiFLAC"

Init == Constructed(SpotiflacPath)

\* ----------------------------------------------------------- the registry
\* registry[job_id] = {...}: a dict assignment, which replaces an entry.
Register(reg, id, s, tag, path) ==
  [k \in (DOMAIN reg) \cup {id} |->
     IF k = id THEN [process |-> s, provider |-> tag, library_path |-> path]
     ELSE reg[k]]

\* registry.pop(job_id, None)
Pop(reg, id) == [k \in (DOMAIN reg) \ {id} |-> reg[k]]

\* The registry a provider was handed: _active_jobs by stream_download
\* (main.py:236-238), a dict of its own by a sync run (sync.py:200, 238).
IsSyncRun(s) == run[s].kind # "none"

\* Mutant: a sync run hands the provider the registry of the client's jobs.
RegistryPutShared(s, tag) ==
  /\ active_jobs' = Register(active_jobs, job_id[s], s, tag, library_path[s])
  /\ UNCHANGED registry

RegistryPut(s, tag) ==
  IF IsSyncRun(s)
  THEN /\ registry' = [registry EXCEPT ![s] = Register(@, job_id[s], s, tag, library_path[s])]
       /\ UNCHANGED active_jobs
  ELSE /\ active_jobs' = Register(active_jobs, job_id[s], s, tag, library_path[s])
       /\ UNCHANGED registry

RegistryPop(s) ==
  IF IsSyncRun(s)
  THEN /\ registry' = [registry EXCEPT ![s] = Pop(@, job_id[s])]
       /\ UNCHANGED active_jobs
  ELSE /\ active_jobs' = Pop(active_jobs, job_id[s])
       /\ UNCHANGED registry

Emit(s, evs) == stream' = [stream EXCEPT ![s] = @ \o evs]
Goto(s, l)   == pc' = [pc EXCEPT ![s] = l]

\* Ids uuid4 has not handed out yet in this run.
UsedIds  == {job_id[s] : s \in Sessions} \ {NoId}
FreshIds == JobIds \ UsedIds

\* Mutant: the job id is taken before the library path is looked at.
RequestAllocatesFirst(s, cfg, prov, path, id) ==
  /\ pc[s] = "idle"
  /\ job_id' = [job_id EXCEPT ![s] = id]
  /\ IF cfg # "ok"
     THEN /\ Goto(s, "error_stream")
          /\ message' = [message EXCEPT ![s] = cfg]
          /\ UNCHANGED <<provider, library_path>>
     ELSE /\ library_path' = [library_path EXCEPT ![s] = path]
          /\ provider' = [provider EXCEPT ![s] =
                            IF prov = "YouTube Music" THEN "ytmusic" ELSE "spotiflac"]
          /\ Goto(s, "lifecycle")
          /\ UNCHANGED message
  /\ UNCHANGED <<stream, active_jobs, procVars, taskVars, countVars, cancelVars, run,
                 registry, storeVars>>

\* ------------------------------------------------- main.py stream_download
\* The request handler up to the StreamingResponse it returns.
Request(s, cfg, prov, path, id) ==
  /\ pc[s] = "idle"
  /\ IF cfg # "ok"
     THEN /\ Goto(s, "error_stream")
          /\ message' = [message EXCEPT ![s] = cfg]
          /\ UNCHANGED <<provider, job_id, library_path>>
     ELSE /\ job_id' = [job_id EXCEPT ![s] = id]
          /\ library_path' = [library_path EXCEPT ![s] = path]
          /\ IF prov = "YouTube Music"
             THEN /\ provider' = [provider EXCEPT ![s] = "ytmusic"]
                  /\ Goto(s, "lifecycle")
                  /\ UNCHANGED message
             ELSE IF prov = "Spotify"
             THEN /\ provider' = [provider EXCEPT ![s] = "spotiflac"]
                  /\ Goto(s, "lifecycle")
                  /\ UNCHANGED message
             ELSE /\ Goto(s, "error_stream")
                  /\ message' = [message EXCEPT ![s] = "unknown_provider"]
                  /\ UNCHANGED provider
  /\ UNCHANGED <<stream, active_jobs, procVars, taskVars, countVars, cancelVars, run,
                 registry, storeVars>>

\* Requests take the sessions in order.
NextSession == 1 + Cardinality({s \in Sessions : pc[s] # "idle"})

\* A request; uuid4 returns an id it has not returned before.
StartRequest(s) ==
  /\ s = NextSession
  /\ s <= MaxRequests
  /\ \E cfg \in ConfigInputs, prov \in ProviderInputs, path \in LibPaths, id \in FreshIds :
       Request(s, cfg, prov, path, id)

\* A request whose id is any value of the id space: main.py:233 does not look
\* at the registry.
StartAnyId(s) ==
  /\ s = NextSession
  /\ \E prov \in {"YouTube Music", "Spotify"}, path \in LibPaths, id \in JobIds :
       Request(s, "ok", prov, path, id)

\* error_stream: the message, then the marker.
ErrorStream(s) ==
  /\ pc[s] = "error_stream"
  /\ Emit(s, <<Report(message[s])>>)
  /\ Goto(s, "error_done")
  /\ UNCHANGED <<syncVars, provider, job_id, library_path, active_jobs, procVars, taskVars,
                 countVars, cancelVars>>

ErrorDone(s) ==
  /\ pc[s] = "error_done"
  /\ Emit(s, <<DoneEvent>>)
  /\ Goto(s, "closed")
  /\ UNCHANGED <<syncVars, provider, job_id, library_path, active_jobs, procVars, taskVars,
                 countVars, cancelVars>>

\* stream_with_lifecycle: the job_id event, then the provider's generator.
LifecycleStart(s) ==
  /\ pc[s] = "lifecycle"
  /\ Emit(s, <<JobIdEvent(job_id[s])>>)
  /\ Goto(s, IF provider[s] = "ytmusic" THEN "yt_init" ELSE "sp_init")
  /\ UNCHANGED <<syncVars, provider, job_id, library_path, active_jobs, procVars, taskVars,
                 countVars, cancelVars>>

\* Mutant: the except branch reports the interruption and leaves out the marker.
LifecycleExceptNoMarker(s) ==
  /\ pc[s] = "lc_except"
  /\ ~IsSyncRun(s)
  /\ Emit(s, <<Report("interrupted")>>)
  /\ Goto(s, "finishing")
  /\ UNCHANGED <<syncVars, provider, job_id, library_path, active_jobs, procVars, taskVars,
                 countVars, cancelVars>>

\* Lines 250-252, except Exception: the provider's generator raised.
LifecycleExcept(s) ==
  /\ pc[s] = "lc_except"
  /\ ~IsSyncRun(s)
  /\ Emit(s, <<Report("interrupted")>>)
  /\ Goto(s, "done_pending")
  /\ UNCHANGED <<syncVars, provider, job_id, library_path, active_jobs, procVars, taskVars,
                 countVars, cancelVars>>

\* The last yield of whichever generator emits the marker.
EmitDone(s) ==
  /\ pc[s] = "done_pending"
  /\ Emit(s, <<DoneEvent>>)
  /\ Goto(s, "finishing")
  /\ UNCHANGED <<syncVars, provider, job_id, library_path, active_jobs, procVars, taskVars,
                 countVars, cancelVars>>

\* The generators return: the provider's finally and stream_with_lifecycle's
\* finally both pop job_id.
LifecycleFinally(s) ==
  /\ pc[s] = "finishing"
  /\ ~IsSyncRun(s)
  /\ active_jobs' = Pop(active_jobs, job_id[s])
  /\ Goto(s, "closed")
  /\ UNCHANGED <<message, run, registry, storeVars, provider, job_id, library_path,
                 stream, procVars, taskVars, countVars, cancelVars>>

\* --------------------------------------- providers/ytmusic.py (process-backed)
\* Lines 27-52: the header.  config.get(...) on a malformed config raises out
\* of the generator; os.makedirs may fail.
YtInit(s) ==
  /\ pc[s] = "yt_init"
  /\ \E outcome \in {"ok", "OSError", "raise"} :
       Goto(s, CASE outcome = "ok" -> "yt_banner"
                 [] outcome = "OSError" -> "yt_mkdir_failed"
                 [] outcome = "raise" -> "lc_except")
  /\ UNCHANGED <<syncVars, provider, job_id, library_path, stream, active_jobs, procVars,
                 taskVars, countVars, cancelVars>>

\* Lines 50-52.
YtMkdirFailed(s) ==
  /\ pc[s] = "yt_mkdir_failed"
  /\ Emit(s, <<Report("mkdir_failed")>>)
  /\ Goto(s, "done_pending")
  /\ UNCHANGED <<syncVars, provider, job_id, library_path, active_jobs, procVars, taskVars,
                 countVars, cancelVars>>

\* Lines 77-85: the banner.
YtBanner(s) ==
  /\ pc[s] = "yt_banner"
  /\ Emit(s, <<Log(Line("banner", 0))>>)
  /\ Goto(s, "yt_spawn")
  /\ UNCHANGED <<syncVars, provider, job_id, library_path, active_jobs, procVars, taskVars,
                 countVars, cancelVars>>

\* Lines 94-105: create_subprocess_exec, then the registry entry.  A launch
\* that fails raises before the entry is written.
YtSpawn(s) ==
  /\ pc[s] = "yt_spawn"
  /\ \/ /\ proc' = [proc EXCEPT ![s] = "running"]
        /\ RegistryPut(s, "ytmusic")
        /\ Goto(s, "yt_read")
     \/ /\ Goto(s, "yt_not_found")          \* FileNotFoundError
        /\ UNCHANGED <<proc, active_jobs, registry>>
     \/ /\ Goto(s, "yt_unexpected")         \* any other exception
        /\ UNCHANGED <<proc, active_jobs, registry>>
  /\ UNCHANGED <<message, run, storeVars, provider, job_id, library_path, stream, returncode, pipe, emitted, produced,
                 term_sent, kill_sent, partials, taskVars, countVars, cancelVars>>

\* Lines 112-150: what one raw line does to the counters.
YtCount(s, l) ==
  /\ total_count' = [total_count EXCEPT ![s] = IF l.kind = "items" THEN l.n ELSE @]
  /\ downloaded' = [downloaded EXCEPT ![s] = IF l.kind = "dest" THEN @ + 1 ELSE @]
  /\ errors' = [errors EXCEPT ![s] = IF l.kind = "error" THEN @ + 1 ELSE @]
  /\ skipped' = [skipped EXCEPT ![s] = IF l.kind = "skipped" THEN @ + 1 ELSE @]

\* Lines 112-150: the events one raw line yields.
YtEvents(l) ==
  IF l.kind = "empty" THEN << >>
  ELSE IF l.kind \in {"items", "dest"} THEN <<Meta("progress"), Log(l)>>
  ELSE <<Log(l)>>

\* Lines 107-150: one iteration of `async for raw_line in process.stdout`.
YtReadLine(s) ==
  /\ pc[s] = "yt_read"
  /\ pipe[s] # << >>
  /\ LET l == Head(pipe[s]) IN
       /\ pipe' = [pipe EXCEPT ![s] = Tail(@)]
       /\ IF l.kind = "overlong"
          THEN /\ Goto(s, "yt_unexpected")
               /\ UNCHANGED <<stream, downloaded, errors, skipped, total_count>>
          ELSE /\ YtCount(s, l)
               /\ Emit(s, YtEvents(l))
               /\ UNCHANGED pc
  /\ UNCHANGED <<syncVars, provider, job_id, library_path, active_jobs, proc, returncode, emitted, produced,
                 term_sent, kill_sent, partials, taskVars, had_fatal_error,
                 was_cancelled, cancelVars>>

\* Lines 152 and 162-163: end of output, process.wait(), then the finally.
YtWait(s) ==
  /\ pc[s] = "yt_read"
  /\ pipe[s] = << >>
  /\ proc[s] = "exited"
  /\ RegistryPop(s)
  /\ Goto(s, "yt_tail")
  /\ UNCHANGED <<message, run, storeVars, provider, job_id, library_path, stream, procVars, taskVars, countVars,
                 cancelVars>>

\* Lines 154-157.
YtNotFound(s) ==
  /\ pc[s] = "yt_not_found"
  /\ Emit(s, <<Report("not_found")>>)
  /\ Goto(s, "done_pending")
  /\ UNCHANGED <<syncVars, provider, job_id, library_path, active_jobs, procVars, taskVars,
                 countVars, cancelVars>>

\* Lines 158-161.
YtUnexpected(s) ==
  /\ pc[s] = "yt_unexpected"
  /\ Emit(s, <<Report("unexpected")>>)
  /\ Goto(s, "done_pending")
  /\ UNCHANGED <<syncVars, provider, job_id, library_path, active_jobs, procVars, taskVars,
                 countVars, cancelVars>>

\* Lines 167-192: the closing report is decided by the return code alone.
YtReport(rc) == IF rc \in {0, 1} THEN Report("success") ELSE Report("exit_code")

\* Lines 165-192.
YtTail(s) ==
  /\ pc[s] = "yt_tail"
  /\ Emit(s, <<Log(Line("blank", 0)), YtReport(returncode[s])>>)
  /\ Goto(s, "done_pending")
  /\ UNCHANGED <<syncVars, provider, job_id, library_path, active_jobs, procVars, taskVars,
                 countVars, cancelVars>>

\* ------------------------------------------------------ the yt-dlp process
\* The child writes one line to its stdout.
ProcEmit(s) ==
  /\ proc[s] = "running"
  /\ emitted[s] < MaxLines
  /\ \E l \in YtLines :
       /\ pipe' = [pipe EXCEPT ![s] = Append(@, l)]
       /\ produced' = [produced EXCEPT ![s] = Append(@, l)]
  /\ emitted' = [emitted EXCEPT ![s] = @ + 1]
  /\ UNCHANGED <<syncVars, sessVars, active_jobs, proc, returncode, term_sent, kill_sent, partials,
                 taskVars, countVars, cancelVars>>

\* The child has a partial download on disk (*.part, *.ytdl).
ProcPartial(s) ==
  /\ proc[s] = "running"
  /\ s \notin partials
  /\ partials' = partials \cup {s}
  /\ UNCHANGED <<syncVars, sessVars, active_jobs, proc, returncode, pipe, emitted, produced, term_sent,
                 kill_sent, taskVars, countVars, cancelVars>>

\* Return codes the child may end with: its own, or the signal's.
ExitCodes(s) ==
  IF kill_sent[s] THEN {-9}
  ELSE IF term_sent[s] THEN {-15, 0, 1, 2}
  ELSE {0, 1, 2}

ProcExit(s) ==
  /\ proc[s] = "running"
  /\ \E rc \in ExitCodes(s) : returncode' = [returncode EXCEPT ![s] = rc]
  /\ proc' = [proc EXCEPT ![s] = "exited"]
  /\ UNCHANGED <<syncVars, sessVars, active_jobs, pipe, emitted, produced, term_sent, kill_sent, partials,
                 taskVars, countVars, cancelVars>>

\* ---------------------------------------- providers/spotify.py (task-backed)
\* Lines 93-119: the header.  int(...) on a malformed option raises out of
\* the generator; os.makedirs may fail.
SpInit(s) ==
  /\ pc[s] = "sp_init"
  /\ \E outcome \in {"ok", "OSError", "raise"} :
       Goto(s, CASE outcome = "ok" -> "sp_banner"
                 [] outcome = "OSError" -> "sp_mkdir_failed"
                 [] outcome = "raise" -> "lc_except")
  /\ UNCHANGED <<syncVars, provider, job_id, library_path, stream, active_jobs, procVars,
                 taskVars, countVars, cancelVars>>

\* Lines 113-117.
SpMkdirFailed(s) ==
  /\ pc[s] = "sp_mkdir_failed"
  /\ Emit(s, <<Report("mkdir_failed"), StatusFailedOnly>>)
  /\ Goto(s, "done_pending")
  /\ UNCHANGED <<syncVars, provider, job_id, library_path, active_jobs, procVars, taskVars,
                 countVars, cancelVars>>

\* Lines 124-136: the banner and the title event.
SpBanner(s) ==
  /\ pc[s] = "sp_banner"
  /\ Emit(s, <<Log(Line("banner", 0)), Meta("title")>>)
  /\ Goto(s, "sp_setup")
  /\ UNCHANGED <<syncVars, provider, job_id, library_path, active_jobs, procVars, taskVars,
                 countVars, cancelVars>>

\* Lines 139-180: the queue, the proxy, the registry entry, the worker.
SpSetup(s) ==
  /\ pc[s] = "sp_setup"
  /\ RegistryPut(s, "spotiflac")
  /\ worker' = [worker EXCEPT ![s] = "running"]
  /\ Goto(s, "sp_loop")
  /\ UNCHANGED <<message, run, storeVars, provider, job_id, library_path, stream, procVars, output_q,
                 cancel_event, countVars, cancelVars>>

\* Lines 184-186: the top of the loop polls the cancellation flag.
SpLoopTop(s) ==
  /\ pc[s] = "sp_loop"
  /\ IF cancel_event[s]
     THEN /\ was_cancelled' = [was_cancelled EXCEPT ![s] = TRUE]
          /\ Goto(s, "sp_finally")
     ELSE /\ Goto(s, "sp_get")
          /\ UNCHANGED was_cancelled
  /\ UNCHANGED <<syncVars, provider, job_id, library_path, stream, active_jobs, procVars,
                 taskVars, downloaded, errors, skipped, total_count, had_fatal_error,
                 cancelVars>>

\* Lines 201-244: what one queue item does to the counters and flags.
SpCount(s, l) ==
  /\ total_count' = [total_count EXCEPT ![s] = IF l.kind = "start" THEN l.n ELSE @]
  /\ downloaded' = [downloaded EXCEPT ![s] = IF l.kind = "ok" THEN @ + 1 ELSE @]
  /\ errors' = [errors EXCEPT ![s] = IF l.kind = "failed" THEN @ + 1 ELSE @]
  /\ skipped' = [skipped EXCEPT ![s] = IF l.kind = "skipped" THEN @ + 1 ELSE @]
  /\ had_fatal_error' = [had_fatal_error EXCEPT ![s] =
                           IF l.kind \in {"__EXCEPTION__", "fatal"} THEN TRUE ELSE @]
  /\ was_cancelled' = [was_cancelled EXCEPT ![s] =
                           IF l.kind = "__CANCELLED__" THEN TRUE ELSE @]

\* Lines 201-244: the events one queue item yields.
SpEvents(l) ==
  CASE l.kind = "__EXCEPTION__" -> <<Report("engine_error")>>
    [] l.kind \in {"__CANCELLED__", "debug"} -> << >>
    [] l.kind \in {"start", "ok"} -> <<Meta("progress"), Log(l)>>
    [] l.kind = "failed" -> <<Log(l), Log(Line("tip", 0))>>
    [] OTHER -> <<Log(l)>>

\* Lines 188-244: one item taken from output_q.
SpGet(s) ==
  /\ pc[s] = "sp_get"
  /\ output_q[s] # << >>
  /\ LET l == Head(output_q[s]) IN
       /\ output_q' = [output_q EXCEPT ![s] = Tail(@)]
       /\ IF l = Sentinel
          THEN /\ Goto(s, "sp_finally")
               /\ UNCHANGED <<stream, countVars>>
          ELSE /\ SpCount(s, l)
               /\ Emit(s, SpEvents(l))
               /\ Goto(s, "sp_loop")
  /\ UNCHANGED <<syncVars, provider, job_id, library_path, active_jobs, procVars, cancel_event,
                 worker, cancelVars>>

\* Lines 193-196: nothing arrived for 300 seconds.
SpStall(s) ==
  /\ pc[s] = "sp_get"
  /\ output_q[s] = << >>
  /\ Emit(s, <<Report("stall")>>)
  /\ had_fatal_error' = [had_fatal_error EXCEPT ![s] = TRUE]
  /\ Goto(s, "sp_finally")
  /\ UNCHANGED <<syncVars, provider, job_id, library_path, active_jobs, procVars, taskVars,
                 downloaded, errors, skipped, total_count, was_cancelled, cancelVars>>

\* Lines 246-248: the await in the loop raised.
SpLoopError(s) ==
  /\ pc[s] = "sp_get"
  /\ Emit(s, <<Report("read_error")>>)
  /\ had_fatal_error' = [had_fatal_error EXCEPT ![s] = TRUE]
  /\ Goto(s, "sp_finally")
  /\ UNCHANGED <<syncVars, provider, job_id, library_path, active_jobs, procVars, taskVars,
                 downloaded, errors, skipped, total_count, was_cancelled, cancelVars>>

\* Lines 249-255: the finally of the loop pops the entry and drains the queue.
SpFinally(s) ==
  /\ pc[s] = "sp_finally"
  /\ RegistryPop(s)
  /\ output_q' = [output_q EXCEPT ![s] = << >>]
  /\ Goto(s, "sp_join")
  /\ UNCHANGED <<message, run, storeVars, provider, job_id, library_path, stream, procVars, cancel_event, worker,
                 countVars, cancelVars>>

\* Lines 257-260: wait_for(thread_future, 30): the worker ended, or the wait
\* is given up.
SpJoin(s) ==
  /\ pc[s] = "sp_join"
  /\ Goto(s, "sp_tail")
  /\ UNCHANGED <<syncVars, provider, job_id, library_path, stream, active_jobs, procVars,
                 taskVars, countVars, cancelVars>>

\* Lines 267-268.
SpSuccess(fatal, cancelled, e, d, t) ==
  LET complete_failure == e > 0 /\ d = 0 /\ t > 0
  IN  ~fatal /\ ~cancelled /\ ~complete_failure

\* Lines 270-295: which closing report is printed.
SpReport(fatal, cancelled, e, d, t) ==
  IF cancelled THEN Report("cancelled")
  ELSE IF SpSuccess(fatal, cancelled, e, d, t) THEN Report("success")
  ELSE IF e > 0 /\ d = 0 /\ t > 0 THEN Report("complete_failure")
  ELSE Report("errors")

\* Lines 262-301: the closing report and the status event.  In the success
\* branch _flatten_spotiflac_subfolders or _transcode_flac may raise.
SpTail(s) ==
  /\ pc[s] = "sp_tail"
  /\ LET ok  == SpSuccess(had_fatal_error[s], was_cancelled[s], errors[s],
                          downloaded[s], total_count[s])
         rep == SpReport(had_fatal_error[s], was_cancelled[s], errors[s],
                         downloaded[s], total_count[s])
     IN \/ /\ Emit(s, <<Log(Line("blank", 0)), rep,
                        StatusEvent(ok, downloaded[s], errors[s], skipped[s])>>)
           /\ Goto(s, "done_pending")
        \/ /\ ok
           /\ \/ Emit(s, <<Log(Line("blank", 0))>>)          \* flatten raised
              \/ Emit(s, <<Log(Line("blank", 0)), rep>>)     \* transcode raised
           /\ Goto(s, "lc_except")
  /\ UNCHANGED <<syncVars, provider, job_id, library_path, active_jobs, procVars, taskVars,
                 countVars, cancelVars>>

\* ------------------------------------------------ the _run worker thread
\* _LineQueue.write: one complete line is put; put blocks on a full queue.
WorkerPut(s) ==
  /\ worker[s] = "running"
  /\ emitted[s] < MaxLines
  /\ Len(output_q[s]) < QueueCap
  /\ \E l \in SpLines :
       /\ output_q' = [output_q EXCEPT ![s] = Append(@, l)]
       /\ produced' = [produced EXCEPT ![s] = Append(@, l)]
  /\ emitted' = [emitted EXCEPT ![s] = @ + 1]
  /\ UNCHANGED <<syncVars, sessVars, active_jobs, proc, returncode, pipe, term_sent, kill_sent,
                 partials, cancel_event, worker, countVars, cancelVars>>

\* Lines 150-167: SpotiFLAC(...) returns, or raises.
WorkerEnd(s) ==
  /\ worker[s] = "running"
  /\ \/ UNCHANGED output_q
     \/ /\ Len(output_q[s]) < QueueCap
        /\ \E m \in {CancelledMsg, ExceptionMsg} :
             output_q' = [output_q EXCEPT ![s] = Append(@, m)]
  /\ worker' = [worker EXCEPT ![s] = "finally"]
  /\ UNCHANGED <<syncVars, sessVars, active_jobs, procVars, cancel_event, countVars, cancelVars>>

\* Lines 168-169: the sentinel.
WorkerSentinel(s) ==
  /\ worker[s] = "finally"
  /\ Len(output_q[s]) < QueueCap
  /\ output_q' = [output_q EXCEPT ![s] = Append(@, Sentinel)]
  /\ worker' = [worker EXCEPT ![s] = "finished"]
  /\ UNCHANGED <<syncVars, sessVars, active_jobs, procVars, cancel_event, countVars, cancelVars>>

\* ------------------------------------------------ main.py cancel_download
\* Lines 180-192: the files _cleanup_partial_files may unlink under a path.
PartialsUnder(path) == {s \in partials : library_path[s] = path}

\* Mutant: the answer is given with the entry left in the registry.
CancelFinishKeepsEntry(c, job) ==
  /\ UNCHANGED <<active_jobs, partials>>
  /\ cresult' = [cresult EXCEPT ![c] = [status |-> "cancelled", partial_files_deleted |-> 0]]
  /\ cancelled_ids' = cancelled_ids \cup {job.id}
  /\ cpc' = [cpc EXCEPT ![c] = "idle"]
  /\ cjob' = [cjob EXCEPT ![c] = NoJob]

\* Mutant: the sweep runs whatever the provider tag of the job is.
CancelFinishSweepsAnyTag(c, job) ==
  /\ active_jobs' = Pop(active_jobs, job.id)
  /\ \E gone \in SUBSET PartialsUnder(job.library_path) :
       /\ partials' = partials \ gone
       /\ cresult' = [cresult EXCEPT ![c] =
                        [status |-> "cancelled", partial_files_deleted |-> Cardinality(gone)]]
  /\ cancelled_ids' = cancelled_ids \cup {job.id}
  /\ cpc' = [cpc EXCEPT ![c] = "idle"]
  /\ cjob' = [cjob EXCEPT ![c] = NoJob]

\* Lines 284-290: the pop, the sweep and the answer.  An unlink that fails
\* is skipped, so any subset of the files may go.
CancelFinish(c, job) ==
  /\ active_jobs' = Pop(active_jobs, job.id)
  /\ \E gone \in SUBSET PartialsUnder(job.library_path) :
       /\ IF job.provider = "ytmusic" /\ job.library_path # ""
          THEN TRUE ELSE gone = {}
       /\ partials' = partials \ gone
       /\ cresult' = [cresult EXCEPT ![c] =
                        [status |-> "cancelled", partial_files_deleted |-> Cardinality(gone)]]
  /\ cancelled_ids' = cancelled_ids \cup {job.id}
  /\ cpc' = [cpc EXCEPT ![c] = "idle"]
  /\ cjob' = [cjob EXCEPT ![c] = NoJob]

\* Mutant: the sweep runs before the lookup is looked at.
CancelNotFoundSweeps(c, id) ==
  /\ cresult' = [cresult EXCEPT ![c] = [status |-> "NotFound", partial_files_deleted |-> 0]]
  /\ partials' = {}
  /\ UNCHANGED <<sessVars, active_jobs, proc, returncode, pipe, emitted, produced, term_sent,
                 kill_sent, taskVars, countVars, cpc, cjob, cancelled_ids>>

\* Lines 267-269: the lookup fails.
CancelNotFound(c, id) ==
  /\ cresult' = [cresult EXCEPT ![c] = [status |-> "NotFound", partial_files_deleted |-> 0]]
  /\ UNCHANGED <<sessVars, active_jobs, procVars, taskVars, countVars, cpc, cjob,
                 cancelled_ids>>

\* Lines 267-277: the lookup, process.terminate() and the start of the wait.
\* lp is the library_path query parameter.
CancelRequest(c, id, lp) ==
  /\ cpc[c] = "idle"
  /\ UNCHANGED syncVars
  /\ IF id \notin DOMAIN active_jobs
     THEN CancelNotFound(c, id)
     ELSE LET e   == active_jobs[id]
              s   == e.process
              job == [id |-> id, process |-> s, provider |-> e.provider,
                      library_path |-> IF lp # "" THEN lp ELSE e.library_path]
          IN IF provider[s] = "spotiflac"
             THEN \* _ThreadJobProxy.terminate
                  /\ cancel_event' = [cancel_event EXCEPT ![s] = TRUE]
                  /\ cpc' = [cpc EXCEPT ![c] = "wait"]
                  /\ cjob' = [cjob EXCEPT ![c] = job]
                  /\ UNCHANGED <<sessVars, active_jobs, procVars, output_q, worker,
                                 countVars, cresult, cancelled_ids>>
             ELSE IF proc[s] = "exited"
             THEN \* ProcessLookupError from terminate(), and again from kill()
                  /\ CancelFinish(c, job)
                  /\ UNCHANGED <<sessVars, proc, returncode, pipe, emitted, produced, term_sent,
                                 kill_sent, taskVars, countVars>>
             ELSE /\ term_sent' = [term_sent EXCEPT ![s] = TRUE]
                  /\ cpc' = [cpc EXCEPT ![c] = "wait"]
                  /\ cjob' = [cjob EXCEPT ![c] = job]
                  /\ UNCHANGED <<sessVars, active_jobs, proc, returncode, pipe, emitted, produced,
                                 kill_sent, partials, taskVars, countVars, cresult,
                                 cancelled_ids>>

\* Line 277: process.wait() returned within the 5 seconds.  The proxy's
\* wait() returns at once.
CancelWaited(c) ==
  /\ cpc[c] = "wait"
  /\ \/ provider[cjob[c].process] = "spotiflac"
     \/ proc[cjob[c].process] = "exited"
  /\ CancelFinish(c, cjob[c])
  /\ UNCHANGED <<syncVars, sessVars, proc, returncode, pipe, emitted, produced, term_sent, kill_sent,
                 taskVars, countVars>>

\* Mutant: the force-kill is sent whether or not the child is still alive.
CancelTimeoutAnyway(c) ==
  /\ cpc[c] = "wait"
  /\ provider[cjob[c].process] = "ytmusic"
  /\ kill_sent' = [kill_sent EXCEPT ![cjob[c].process] = TRUE]
  /\ CancelFinish(c, cjob[c])
  /\ UNCHANGED <<syncVars, sessVars, proc, returncode, pipe, emitted, produced, term_sent,
                 taskVars, countVars>>

\* Lines 278-282: the 5 seconds passed with the child alive: process.kill().
CancelTimeout(c) ==
  /\ cpc[c] = "wait"
  /\ provider[cjob[c].process] = "ytmusic"
  /\ proc[cjob[c].process] = "running"
  /\ kill_sent' = [kill_sent EXCEPT ![cjob[c].process] = TRUE]
  /\ CancelFinish(c, cjob[c])
  /\ UNCHANGED <<syncVars, sessVars, proc, returncode, pipe, emitted, produced, term_sent, taskVars,
                 countVars>>

\* ------------------------------------------------------ client disconnect
InTry(s) == pc[s] \in {"sp_loop", "sp_get", "sp_finally"}
HasLifecycle(s) == pc[s] \notin {"idle", "error_stream", "error_done", "closed", "aborted"}

\* Mutant: the generators are dropped and no finally block runs.
DisconnectNoCleanup(s) ==
  /\ pc[s] \notin {"idle", "closed", "aborted"}
  /\ ~IsSyncRun(s)
  /\ Goto(s, "aborted")
  /\ UNCHANGED <<syncVars, provider, job_id, library_path, stream, active_jobs, procVars, taskVars,
                 countVars, cancelVars>>

\* The response is torn down while the generators are suspended: they are
\* closed and their finally blocks run (main.py:253-254, ytmusic.py:162-163,
\* spotify.py:249-255).  Nothing more is delivered.
Disconnect(s) ==
  /\ pc[s] \notin {"idle", "closed", "aborted"}
  /\ ~IsSyncRun(s)
  /\ IF HasLifecycle(s)
     THEN active_jobs' = Pop(active_jobs, job_id[s])
     ELSE UNCHANGED active_jobs
  /\ IF InTry(s)
     THEN output_q' = [output_q EXCEPT ![s] = << >>]
     ELSE UNCHANGED output_q
  /\ Goto(s, "aborted")
  /\ UNCHANGED <<syncVars, provider, job_id, library_path, stream, procVars, cancel_event, worker,
                 countVars, cancelVars>>

\* ------------------------------------------------------------------- Next
SessionStep(s) ==
  \/ ErrorStream(s) \/ ErrorDone(s)
  \/ LifecycleStart(s) \/ LifecycleExcept(s) \/ EmitDone(s) \/ LifecycleFinally(s)
  \/ YtInit(s) \/ YtMkdirFailed(s) \/ YtBanner(s) \/ YtSpawn(s) \/ YtReadLine(s)
  \/ YtWait(s) \/ YtNotFound(s) \/ YtUnexpected(s) \/ YtTail(s)
  \/ SpInit(s) \/ SpMkdirFailed(s) \/ SpBanner(s) \/ SpSetup(s) \/ SpLoopTop(s)
  \/ SpGet(s) \/ SpStall(s) \/ SpLoopError(s) \/ SpFinally(s) \/ SpJoin(s) \/ SpTail(s)

ProviderStep(s) ==
  \/ ProcEmit(s) \/ ProcPartial(s) \/ ProcExit(s)
  \/ WorkerPut(s) \/ WorkerEnd(s) \/ WorkerSentinel(s)

CancelStep(c) ==
  \/ \E id \in JobIds, lp \in {""} \cup LibPaths : CancelRequest(c, id, lp)
  \/ CancelWaited(c)
  \/ CancelTimeout(c)

Next ==
  \/ \E s \in Sessions : StartRequest(s)
  \/ \E s \in Sessions : SessionStep(s)
  \/ \E s \in Sessions : ProviderStep(s)
  \/ \E s \in Sessions : Disconnect(s)
  \/ \E c \in Cancellers : CancelStep(c)

Spec == Init /\ [][Next]_vars

\* Two sessions whose ids may coincide, run to their end with providers that
\* print nothing; no cancel, no disconnect.
NextCollide ==
  \/ \E s \in Sessions : StartAnyId(s)
  \/ \E s \in Sessions :
       \/ LifecycleStart(s) \/ LifecycleExcept(s) \/ EmitDone(s) \/ LifecycleFinally(s)
       \/ YtInit(s) \/ YtMkdirFailed(s) \/ YtBanner(s) \/ YtSpawn(s)
       \/ YtWait(s) \/ YtNotFound(s) \/ YtUnexpected(s) \/ YtTail(s)
       \/ SpInit(s) \/ SpMkdirFailed(s) \/ SpBanner(s) \/ SpSetup(s) \/ SpLoopTop(s)
       \/ SpGet(s) \/ SpStall(s) \/ SpFinally(s) \/ SpJoin(s) \/ SpTail(s)
       \/ ProcExit(s) \/ WorkerEnd(s) \/ WorkerSentinel(s)

SpecCollide == Init /\ [][NextCollide]_vars

\* ======================================================= sync.py SyncManager
\* ------------------------------------------------ values of the definitions
\* A value of a request body or of a stored definition: its Python type, and
\* its content (a number, or a text).
PyInt(i)  == [t |-> "int", n |-> i, s |-> ""]
PyStr(x)  == [t |-> "str", n |-> 0, s |-> x]
PyBool(b) == [t |-> "bool", n |-> IF b THEN 1 ELSE 0, s |-> ""]
PyNone    == [t |-> "NoneType", n |-> 0, s |-> ""]
\* datetime.utcnow().isoformat() at hour h (sync.py:266)
IsoTime(h) == [t |-> "str", n |-> h, s |-> "iso"]

\* bool(v) and `if v:`
Truthy(v) ==
  CASE v.t \in {"int", "bool"} -> v.n # 0
    [] v.t = "str" -> v.s # ""
    [] OTHER -> FALSE

\* int(v): the texts that are numerals, and what they denote.
Numerals == {"6"}
IntRaises(v) == v.t = "NoneType" \/ (v.t = "str" /\ v.s \notin Numerals)
IntOf(v) == IF v.t = "str" THEN (CASE v.s = "6" -> 6 [] OTHER -> 0) ELSE v.n

\* The config snapshot: a dict with libraryPath and, when the section is
\* present, config["spotify"] with its sub-folder flags and spotiflacPath; or
\* a value that is no dict.
Config(kind, section, flags, path) ==
  [t |-> kind, libraryPath |-> "/music", spotify |-> section,
   subfolders |-> flags, spotiflacPath |-> path]
\* last_sync_log: None, or the text, line by line.
NoLog == [t |-> "NoneType", lines |-> << >>]
LogText(ls) == [t |-> "str", lines |-> ls]

\* ------------------------------------------------- dicts as functions
Put(d, k, v) == [x \in (DOMAIN d) \cup {k} |-> IF x = k THEN v ELSE d[x]]
Has(d, k) == k \in DOMAIN d
\* d.get(k, default)
Get(d, k, default) == IF k \in DOMAIN d THEN d[k] ELSE default

\* ------------------------------------------------ json.dumps / json.loads
\* json.dumps writes each Python value as the JSON value of its type;
\* json.loads reads each JSON value back as the Python value of its type.
EncVal(v) ==
  [j |-> CASE v.t = "int" -> "number"
           [] v.t = "str" -> "string"
           [] v.t = "bool" -> (IF v.n = 1 THEN "true" ELSE "false")
           [] OTHER -> "null",
   n |-> IF v.t = "bool" THEN 0 ELSE v.n,
   s |-> v.s]

DecVal(x) ==
  CASE x.j = "number" -> PyInt(x.n)
    [] x.j = "string" -> [t |-> "str", n |-> x.n, s |-> x.s]
    [] x.j = "true" -> PyBool(TRUE)
    [] x.j = "false" -> PyBool(FALSE)
    [] OTHER -> PyNone

EncConfig(c) ==
  [j |-> IF c.t = "dict" THEN "object" ELSE "string", libraryPath |-> c.libraryPath,
   spotify |-> c.spotify, subfolders |-> IF c.subfolders THEN "true" ELSE "false",
   spotiflacPath |-> c.spotiflacPath]

DecConfig(x) ==
  [t |-> IF x.j = "object" THEN "dict" ELSE "str", libraryPath |-> x.libraryPath,
   spotify |-> x.spotify, subfolders |-> (x.subfolders = "true"),
   spotiflacPath |-> x.spotiflacPath]

EncLog(l) == [j |-> IF l.t = "str" THEN "string" ELSE "null", lines |-> l.lines]
DecLog(x) == [t |-> IF x.j = "string" THEN "str" ELSE "NoneType", lines |-> x.lines]

PlainFields == {"id", "url", "name", "thumb", "provider", "playlist_folder",
                "schedule_type", "interval_value", "interval_unit", "cron_time",
                "cron_days", "enabled", "last_synced_at", "last_sync_status"}
Fields == PlainFields \cup {"config", "last_sync_log"}

EncPlaylist(p) ==
  [f \in Fields |-> CASE f = "config" -> EncConfig(p[f])
                      [] f = "last_sync_log" -> EncLog(p[f])
                      [] OTHER -> EncVal(p[f])]

DecPlaylist(x) ==
  [f \in Fields |-> CASE f = "config" -> DecConfig(x[f])
                      [] f = "last_sync_log" -> DecLog(x[f])
                      [] OTHER -> DecVal(x[f])]

Dumps(d) == [k \in DOMAIN d |-> EncPlaylist(d[k])]
Loads(text) == [k \in DOMAIN text |-> DecPlaylist(text[k])]

\* _save (sync.py:39-43): the whole dict is written out.
Saved(d) == [exists |-> TRUE, text |-> Dumps(d)]

\* _load (sync.py:32-37), on a manager whose _playlists is {}.
Loaded(f) == IF f.exists THEN Loads(f.text) ELSE EmptyDict

\* ------------------------------------------------------------ the scheduler
\* Keyword arguments the interval trigger takes (sync.py:128, **{unit: value}).
IntervalUnits == {"weeks", "days", "hours", "minutes", "seconds"}

\* time_str.split(":") and int(hour), int(minute) (sync.py:132-136, 155-156):
\* a text without one colon falls back to 8:00; a field that is no numeral,
\* or no hour of the day, raises ValueError.
CronTimeRaises(x) == x \in {"ab:cd", "25:00"}
CronHour(x) == CASE x = "08:00" -> 8 [] x = "12:30" -> 12 [] OTHER -> 8
CronMinute(x) == CASE x = "12:30" -> 30 [] OTHER -> 0

\* Lines 138-147.
DayOfWeek(days) ==
  CASE days = "weekdays" -> "mon-fri"
    [] days = "weekends" -> "sat,sun"
    [] days = "daily" -> "*"
    [] OTHER -> days
DayExpressions == {"*", "mon-fri", "sat,sun", "mon", "tue", "wed", "thu", "fri", "sat", "sun"}

\* What _schedule_playlist raises for a definition, "none" if it does not.
ScheduleRaises(pl) ==
  IF pl.schedule_type = PyStr("interval")
  THEN IF IntRaises(pl.interval_value)
       THEN (IF pl.interval_value.t = "NoneType" THEN "TypeError" ELSE "ValueError")
       ELSE IF pl.interval_unit.t # "str" \/ pl.interval_unit.s \notin IntervalUnits
       THEN "TypeError"
       ELSE "none"
  ELSE IF pl.cron_time.t # "str" THEN "AttributeError"
       ELSE IF CronTimeRaises(pl.cron_time.s) THEN "ValueError"
       ELSE IF pl.cron_days.t # "str" \/ DayOfWeek(pl.cron_days.s) \notin DayExpressions
       THEN "ValueError"
       ELSE "none"

\* The clock starts at midnight before a Monday.  The next hour after h at
\* which a cron trigger fires; Never if that is beyond the first day.
CronNext(h, hour, dow) ==
  IF dow \in {"*", "mon-fri", "mon"} /\ hour > h THEN hour ELSE Never

\* Hours in one unit of an interval (units below an hour are not timed).
UnitHours(u) == CASE u = "weeks" -> 168 [] u = "days" -> 24 [] u = "hours" -> 1 [] OTHER -> 0

\* A job of the scheduler: its id, the pid it runs _run_sync_job with, and
\* its trigger.
NoTrigger == [id |-> 0, args |-> 0, type |-> "none", unit |-> "", value |-> 0, hour |-> 0,
              minute |-> 0, day_of_week |-> "", next_run_time |-> Never]

\* job_id = f"sync_{pid}" (sync.py:117, 161): pid stands for it.
JobIdOf(pid) == pid

\* The job add_job builds at hour h (sync.py:122-129, 149-158).  An interval
\* trigger first fires one interval after it was built.
TriggerOf(pl, h) ==
  IF pl.schedule_type = PyStr("interval")
  THEN [NoTrigger EXCEPT !.id = JobIdOf(pl.id.n), !.args = pl.id.n,
          !.type = "interval", !.unit = pl.interval_unit.s,
          !.value = IntOf(pl.interval_value),
          !.next_run_time = IF UnitHours(pl.interval_unit.s) > 0
                            THEN h + UnitHours(pl.interval_unit.s) * IntOf(pl.interval_value)
                            ELSE Never]
  ELSE [NoTrigger EXCEPT !.id = JobIdOf(pl.id.n), !.args = pl.id.n,
          !.type = "cron", !.hour = CronHour(pl.cron_time.s),
          !.minute = CronMinute(pl.cron_time.s),
          !.day_of_week = DayOfWeek(pl.cron_days.s),
          !.next_run_time = CronNext(h, CronHour(pl.cron_time.s), DayOfWeek(pl.cron_days.s))]

\* scheduler.get_job(id): where the job of that id is, 0 if there is none.
GetJob(js, id) ==
  IF \E i \in DOMAIN js : js[i].id = id
  THEN CHOOSE i \in DOMAIN js : js[i].id = id
  ELSE 0

\* scheduler.add_job(..., id=job_id, replace_existing=True)
AddJob(js, job) ==
  IF GetJob(js, job.id) # 0
  THEN [js EXCEPT ![GetJob(js, job.id)] = job]
  ELSE Append(js, job)

\* scheduler.remove_job(id)
RemoveJob(js, id) == SelectSeq(js, LAMBDA j : j.id # id)

\* _schedule_playlist (sync.py:115-158): the jobs after the call; a call that
\* raises adds nothing.
SchedulePlaylist(js, pl, h) ==
  IF ScheduleRaises(pl) # "none" THEN js
  ELSE AddJob(js, TriggerOf(pl, h))

\* _unschedule_playlist (sync.py:160-163)
UnschedulePlaylist(js, pid) ==
  IF GetJob(js, JobIdOf(pid)) # 0 THEN RemoveJob(js, JobIdOf(pid)) ELSE js

\* ------------------------------------------------------- sync.py, the CRUD
\* What the sync endpoints leave alone.
downloadVars == <<sessVars, active_jobs, procVars, taskVars, countVars, cancelVars,
                  message, run, registry>>

\* Request bodies of POST /api/sync/playlists.
Body(prov, cfg) ==
  [url |-> PyStr("u"), name |-> PyStr("a"), provider |-> PyStr(prov), config |-> cfg]
Without(d, k) == [x \in (DOMAIN d) \ {k} |-> d[x]]

\* Keys a body may carry besides the required ones.
ScheduleInputs ==
  { [x \in {} |-> PyNone],                                   \* the defaults
    [interval_value |-> PyStr("6"), enabled |-> PyBool(FALSE)],
    [interval_value |-> PyStr("six")],
    [interval_unit |-> PyStr("fortnights"), enabled |-> PyBool(FALSE)],
    [schedule_type |-> PyStr("cron"), cron_time |-> PyStr("0800"),
     cron_days |-> PyStr("weekdays")],
    [schedule_type |-> PyStr("cron"), cron_time |-> PyStr("ab:cd")] }

Required == {"url", "name", "provider", "config"}

AddInputs ==
  { Body("YouTube Music", Config("dict", FALSE, FALSE, "")) @@ x : x \in ScheduleInputs }
  \cup { Without(Body("Spotify", Config("dict", TRUE, TRUE, "")), k) : k \in Required }

\* Request bodies of PUT /api/sync/playlists/{pid}.
UpdateInputs ==
  { [enabled |-> PyBool(TRUE)],
    [enabled |-> PyBool(FALSE)],
    [name |-> PyStr("b"), url |-> PyStr("v")],
    [interval_value |-> PyStr("six")],
    [schedule_type |-> PyStr("interval"), interval_value |-> PyInt(6),
     interval_unit |-> PyStr("hours")] }

\* str(uuid.uuid4()) of the pid-th definition
Uid(pid) == [t |-> "str", n |-> pid, s |-> "uuid"]

\* The definitions added so far, deleted ones included.
NextPid == 1 + Cardinality({p \in Pids : created_at[p] # Never})

\* Lines 63-81: the dict add_playlist builds.
NewPlaylist(pid, data) ==
  [id |-> Uid(pid),
   url |-> data["url"],
   name |-> data["name"],
   thumb |-> Get(data, "thumb", PyNone),
   provider |-> data["provider"],
   config |-> data["config"],
   playlist_folder |-> Get(data, "playlist_folder", PyStr("")),
   schedule_type |-> Get(data, "schedule_type", PyStr("interval")),
   interval_value |-> PyInt(IntOf(Get(data, "interval_value", PyInt(24)))),
   interval_unit |-> Get(data, "interval_unit", PyStr("hours")),
   cron_time |-> Get(data, "cron_time", PyStr("08:00")),
   cron_days |-> Get(data, "cron_days", PyStr("daily")),
   enabled |-> PyBool(Truthy(Get(data, "enabled", PyBool(TRUE)))),
   last_synced_at |-> PyNone,
   last_sync_status |-> PyNone,
   last_sync_log |-> NoLog]

\* What building that dict raises: data["k"] for a missing k, or int(...).
NewPlaylistRaises(data) ==
  IF Required \ DOMAIN data # {} THEN "KeyError"
  ELSE IF IntRaises(Get(data, "interval_value", PyInt(24)))
       THEN (IF Get(data, "interval_value", PyInt(24)).t = "NoneType"
             THEN "TypeError" ELSE "ValueError")
       ELSE "none"

\* main.py:302-306: KeyError and ValueError become 422; main.py:311-314 and
\* anything else is the framework's 500.
AddStatus(exc) ==
  CASE exc = "none" -> "ok"
    [] exc \in {"KeyError", "ValueError"} -> "validation_error"
    [] OTHER -> "server_error"

Answer(o, st, pid) == [op |-> o, status |-> st, pid |-> pid]

\* add_playlist (sync.py:61-86) behind POST /api/sync/playlists (main.py:300-306)
AddPlaylist(data) ==
  /\ app = "running"
  /\ IF NewPlaylistRaises(data) # "none"
     THEN /\ reply' = Answer("add", AddStatus(NewPlaylistRaises(data)), 0)
          /\ UNCHANGED <<playlists, file, jobs, created_at>>
     ELSE /\ NextPid \in Pids
          /\ LET pl == NewPlaylist(NextPid, data)
                 stored == Put(playlists, NextPid, pl)
             IN /\ playlists' = stored
                /\ file' = Saved(stored)
                /\ created_at' = [created_at EXCEPT ![NextPid] = now]
                /\ IF Truthy(pl.enabled)
                   THEN /\ jobs' = SchedulePlaylist(jobs, pl, now)
                        /\ reply' = Answer("add", AddStatus(ScheduleRaises(pl)), NextPid)
                   ELSE /\ UNCHANGED jobs
                        /\ reply' = Answer("add", "ok", NextPid)
  /\ UNCHANGED <<downloadVars, app, now, spotiflac_path, fired_at>>

UpdateKeys == {"name", "schedule_type", "interval_value", "interval_unit",
               "cron_time", "cron_days", "enabled"}

\* Mutant: every key of the body is written into the definition.
UpdatedAnyKey(pl, data) ==
  [f \in Fields |-> IF f \in DOMAIN data THEN data[f] ELSE pl[f]]

\* Lines 92-97: playlist[key] = data[key] for the keys the body has.
Updated(pl, data) ==
  [f \in Fields |-> IF f \in UpdateKeys \cap DOMAIN data THEN data[f] ELSE pl[f]]

\* Mutant: the job is removed only when the definition is rescheduled.
UpdatePlaylistKeepsJob(pid, data) ==
  /\ app = "running"
  /\ IF pid \notin DOMAIN playlists
     THEN /\ reply' = Answer("update", "not_found", pid)
          /\ UNCHANGED <<playlists, file, jobs>>
     ELSE LET pl == Updated(playlists[pid], data)
              stored == Put(playlists, pid, pl)
          IN /\ playlists' = stored
             /\ file' = Saved(stored)
             /\ jobs' = IF Truthy(pl.enabled)
                        THEN SchedulePlaylist(UnschedulePlaylist(jobs, pid), pl, now)
                        ELSE jobs
             /\ reply' = Answer("update", "ok", pid)
  /\ UNCHANGED <<downloadVars, app, now, spotiflac_path, fired_at, created_at>>

\* update_playlist (sync.py:88-103) behind PUT (main.py:309-314)
UpdatePlaylist(pid, data) ==
  /\ app = "running"
  /\ IF pid \notin DOMAIN playlists
     THEN /\ reply' = Answer("update", "not_found", pid)
          /\ UNCHANGED <<playlists, file, jobs>>
     ELSE LET pl == Updated(playlists[pid], data)
              stored == Put(playlists, pid, pl)
              removed == UnschedulePlaylist(jobs, pid)
          IN /\ playlists' = stored
             /\ file' = Saved(stored)
             /\ IF Truthy(pl.enabled)
                THEN /\ jobs' = SchedulePlaylist(removed, pl, now)
                     /\ reply' = Answer("update", IF ScheduleRaises(pl) = "none" THEN "ok"
                                                  ELSE "server_error", pid)
                ELSE /\ jobs' = removed
                     /\ reply' = Answer("update", "ok", pid)
  /\ UNCHANGED <<downloadVars, app, now, spotiflac_path, fired_at, created_at>>

\* Mutant: a delete of an id that is not stored is answered like any other.
DeletePlaylistAlwaysDeleted(pid) ==
  /\ app = "running"
  /\ jobs' = UnschedulePlaylist(jobs, pid)
  /\ playlists' = Pop(playlists, pid)
  /\ file' = Saved(Pop(playlists, pid))
  /\ reply' = Answer("delete", "deleted", pid)
  /\ UNCHANGED <<downloadVars, app, now, spotiflac_path, fired_at, created_at>>

\* delete_playlist (sync.py:105-111) behind DELETE (main.py:317-321)
DeletePlaylist(pid) ==
  /\ app = "running"
  /\ IF pid \notin DOMAIN playlists
     THEN /\ reply' = Answer("delete", "not_found", pid)
          /\ UNCHANGED <<playlists, file, jobs>>
     ELSE /\ jobs' = UnschedulePlaylist(jobs, pid)
          /\ playlists' = Pop(playlists, pid)
          /\ file' = Saved(Pop(playlists, pid))
          /\ reply' = Answer("delete", "deleted", pid)
  /\ UNCHANGED <<downloadVars, app, now, spotiflac_path, fired_at, created_at>>

\* ------------------------------------------- the process stops and starts
RECURSIVE RescheduleEvery(_, _, _, _)
RECURSIVE RescheduleFrom(_, _, _, _)
\* Mutant: the loop schedules every definition, enabled or not.
RescheduleEvery(p, d, js, h) ==
  IF p > NPlaylists THEN js
  ELSE IF p \notin DOMAIN d THEN RescheduleEvery(p + 1, d, js, h)
  ELSE IF ScheduleRaises(d[p]) # "none" THEN js
  ELSE RescheduleEvery(p + 1, d, SchedulePlaylist(js, d[p], h), h)

\* _reschedule_all (sync.py:165-168) from the definition numbered p on, in
\* the order of the dict: the jobs when the loop ends, or when
\* _schedule_playlist raises.
RescheduleFrom(p, d, js, h) ==
  IF p > NPlaylists THEN js
  ELSE IF p \notin DOMAIN d \/ ~Truthy(d[p].enabled) THEN RescheduleFrom(p + 1, d, js, h)
  ELSE IF ScheduleRaises(d[p]) # "none" THEN js
  ELSE RescheduleFrom(p + 1, d, SchedulePlaylist(js, d[p], h), h)

RescheduleRaises(d) ==
  \E p \in DOMAIN d : Truthy(d[p].enabled) /\ ScheduleRaises(d[p]) # "none"

NoneRunning == \A s \in Sessions : pc[s] \in {"idle", "closed", "aborted", "crashed"}

\* The process ends (lifespan, main.py:36; stop, sync.py:28-30) and a new one
\* is made: SyncManager.__init__ (sync.py:16-22) with a scheduler of no jobs,
\* and _load.
Restart ==
  /\ NoneRunning
  /\ app \in {"running", "startup_failed"}
  /\ playlists' = Loaded(file)
  /\ jobs' = << >>
  /\ app' = "constructed"
  /\ reply' = NoReply
  /\ UNCHANGED <<downloadVars, file, now, spotiflac_path, fired_at, created_at>>

\* lifespan (main.py:32-35): start (sync.py:24-26).  An exception out of
\* _reschedule_all fails the startup and the process exits.
Startup ==
  /\ app = "constructed"
  /\ jobs' = RescheduleFrom(1, playlists, jobs, now)
  /\ app' = IF RescheduleRaises(playlists) THEN "startup_failed" ELSE "running"
  /\ reply' = Answer("startup", IF RescheduleRaises(playlists) THEN "failed" ELSE "ok", 0)
  /\ UNCHANGED <<downloadVars, playlists, file, now, spotiflac_path, fired_at, created_at>>

\* The store and the scheduler, with no run and no clock.
NextSync ==
  \/ \E data \in AddInputs : AddPlaylist(data)
  \/ \E pid \in Pids, data \in UpdateInputs : UpdatePlaylist(pid, data)
  \/ \E pid \in Pids : DeletePlaylist(pid)
  \/ Restart
  \/ Startup

SpecSync == Init /\ [][NextSync]_vars

\* One request after the other: the next one is made when the one before it
\* has ended, so that a job may find the files an earlier one left behind.
StartAfter(s) ==
  /\ s = NextSession
  /\ \A t \in Sessions : pc[t] \in {"idle", "closed", "aborted"}
  /\ \E prov \in {"YouTube Music", "Spotify"}, path \in LibPaths, id \in FreshIds :
       Request(s, "ok", prov, path, id)

\* Two jobs in turn, with providers that print nothing, and the cancel handler.
NextSweep ==
  \/ \E s \in Sessions : StartAfter(s)
  \/ \E s \in Sessions :
       \/ LifecycleStart(s) \/ LifecycleExcept(s) \/ EmitDone(s) \/ LifecycleFinally(s)
       \/ YtInit(s) \/ YtMkdirFailed(s) \/ YtBanner(s) \/ YtSpawn(s)
       \/ YtWait(s) \/ YtNotFound(s) \/ YtUnexpected(s) \/ YtTail(s)
       \/ SpInit(s) \/ SpMkdirFailed(s) \/ SpBanner(s) \/ SpSetup(s) \/ SpLoopTop(s)
       \/ SpGet(s) \/ SpStall(s) \/ SpFinally(s) \/ SpJoin(s) \/ SpTail(s)
       \/ ProcPartial(s) \/ ProcExit(s) \/ WorkerEnd(s) \/ WorkerSentinel(s)
  \/ \E c \in Cancellers : CancelStep(c)

SpecSweep == Init /\ [][NextSweep]_vars

\* ------------------------------------------- the rules of the translators
\* A raw text may match several patterns.  The patterns of ytmusic.py:113-148
\* and of spotify.py:215-240, in the order of their if/elif chains.
YtOrder == <<"items", "dest", "error", "skipped">>
SpOrder == <<"start", "ok", "failed", "skipped", "fatal">>

\* The first pattern of the chain that the text matches; "other" if none.
FirstMatch(order, marks) ==
  IF \E i \in DOMAIN order : order[i] \in marks
  THEN order[CHOOSE i \in DOMAIN order :
               /\ order[i] \in marks
               /\ \A j \in 1..(i - 1) : order[j] \notin marks]
  ELSE "other"

YtRule(marks) == FirstMatch(YtOrder, marks)
SpRule(marks) == FirstMatch(SpOrder, marks)

\* A raw text, as the set of patterns it matches.
Raw(marks) == [kind |-> "raw", n |-> MaxLines, marks |-> marks]

\* Texts yt-dlp may print: "ERROR:" opens the line, the other patterns are
\* looked for anywhere in it.
YtTexts == {Raw(m) : m \in {x \in SUBSET {"items", "dest", "error", "skipped"} :
                              Cardinality(x) <= 2}}
\* Texts SpotiFLAC may print: "[i/N] Starting download:" and "Error:" both
\* open the line, so no text matches the two.
SpTexts == {Raw(m) : m \in {x \in SUBSET {"start", "ok", "failed", "fatal"} :
                              Cardinality(x) <= 2 /\ ~({"start", "fatal"} \subseteq x)}}

\* The child writes a text to its stdout.
ProcEmitRaw(s) ==
  /\ proc[s] = "running"
  /\ emitted[s] < MaxLines
  /\ \E l \in YtTexts :
       /\ pipe' = [pipe EXCEPT ![s] = Append(@, l)]
       /\ produced' = [produced EXCEPT ![s] = Append(@, l)]
  /\ emitted' = [emitted EXCEPT ![s] = @ + 1]
  /\ UNCHANGED <<syncVars, sessVars, active_jobs, proc, returncode, term_sent, kill_sent, partials,
                 taskVars, countVars, cancelVars>>

\* ytmusic.py:107-150: one iteration of the loop over a text.
YtReadRaw(s) ==
  /\ pc[s] = "yt_read"
  /\ pipe[s] # << >>
  /\ LET l == Line(YtRule(Head(pipe[s]).marks), Head(pipe[s]).n) IN
       /\ pipe' = [pipe EXCEPT ![s] = Tail(@)]
       /\ YtCount(s, l)
       /\ Emit(s, YtEvents(l))
  /\ UNCHANGED <<syncVars, pc, provider, job_id, library_path, active_jobs, proc, returncode,
                 emitted, produced, term_sent, kill_sent, partials, taskVars, had_fatal_error,
                 was_cancelled, cancelVars>>

\* _LineQueue.write puts a text.
WorkerPutRaw(s) ==
  /\ worker[s] = "running"
  /\ emitted[s] < MaxLines
  /\ Len(output_q[s]) < QueueCap
  /\ \E l \in SpTexts :
       /\ output_q' = [output_q EXCEPT ![s] = Append(@, l)]
       /\ produced' = [produced EXCEPT ![s] = Append(@, l)]
  /\ emitted' = [emitted EXCEPT ![s] = @ + 1]
  /\ UNCHANGED <<syncVars, sessVars, active_jobs, proc, returncode, pipe, term_sent, kill_sent,
                 partials, cancel_event, worker, countVars, cancelVars>>

\* spotify.py:188-244: one text taken from output_q.
SpGetRaw(s) ==
  /\ pc[s] = "sp_get"
  /\ output_q[s] # << >>
  /\ Head(output_q[s]).kind = "raw"
  /\ LET l == Line(SpRule(Head(output_q[s]).marks), Head(output_q[s]).n) IN
       /\ output_q' = [output_q EXCEPT ![s] = Tail(@)]
       /\ SpCount(s, l)
       /\ Emit(s, SpEvents(l))
       /\ Goto(s, "sp_loop")
  /\ UNCHANGED <<syncVars, provider, job_id, library_path, active_jobs, procVars, cancel_event,
                 worker, cancelVars>>

\* spotify.py:198-208: the item taken is the sentinel or a message of _run.
SpGetMark(s) ==
  /\ output_q[s] # << >>
  /\ Head(output_q[s]).kind # "raw"
  /\ SpGet(s)

\* A request that passes the checks of stream_download.
StartValid(s) ==
  /\ s = NextSession
  /\ s <= MaxRequests
  /\ \E prov \in {"YouTube Music", "Spotify"}, path \in LibPaths, id \in FreshIds :
       Request(s, "ok", prov, path, id)

\* One job whose provider prints texts that may match several patterns.
NextTranslate ==
  \/ \E s \in Sessions : StartValid(s)
  \/ \E s \in Sessions :
       \/ LifecycleStart(s) \/ LifecycleExcept(s) \/ EmitDone(s) \/ LifecycleFinally(s)
       \/ YtInit(s) \/ YtMkdirFailed(s) \/ YtBanner(s) \/ YtSpawn(s) \/ YtReadRaw(s)
       \/ YtWait(s) \/ YtNotFound(s) \/ YtUnexpected(s) \/ YtTail(s)
       \/ SpInit(s) \/ SpMkdirFailed(s) \/ SpBanner(s) \/ SpSetup(s) \/ SpLoopTop(s)
       \/ SpGetMark(s) \/ SpGetRaw(s) \/ SpStall(s)
       \/ SpFinally(s) \/ SpJoin(s) \/ SpTail(s)
       \/ ProcEmitRaw(s) \/ ProcExit(s)
       \/ WorkerPutRaw(s) \/ WorkerEnd(s) \/ WorkerSentinel(s)

SpecTranslate == Init /\ [][NextTranslate]_vars

\* ================================================================ properties
Events(s)   == {stream[s][i] : i \in DOMAIN stream[s]}
Count(s, t) == Cardinality({i \in DOMAIN stream[s] : stream[s][i].type = t})
Reports(s)  == {e.kind : e \in {x \in Events(s) : x.type = "report"}}
Completed(s) == pc[s] = "closed"
Announced(s) == \E e \in Events(s) : e.type = "job_id"

\* ---------------------------------------------------- sync.py, the sync runs
MaxRuns == 1        \* sync runs started in one run of the model
LogLimit == 3       \* lines of a log that are kept (5000 characters in the source, scaled)

\* _build_config (sync.py:172-183) raises when the snapshot is no dict.
BuildConfigRaises(pl) == pl.config.t # "dict"

\* str.strip of a path (sync.py:174): " " stands for a path of whitespace only.
Strip(x) == IF x = " " THEN "" ELSE x

\* What _build_config leaves in the stored definition: dict(...) copies the
\* top level only, so config["spotify"] of the copy is the stored section, and
\* the path and the two flags are written into it.
AfterBuildConfig(pl, path) ==
  IF pl.config.spotify
  THEN [pl EXCEPT !.config.subfolders = FALSE,
                  !.config.spotiflacPath = IF path # "" /\ Strip(@) = ""
                                           THEN path ELSE @]
  ELSE pl

\* _build_config with the test of the definition's own path left out.
BuildConfigOverwrites(pl, path) ==
  [pl.config EXCEPT !.spotify = TRUE,
                    !.subfolders = FALSE,
                    !.spotiflacPath = IF path # "" THEN path ELSE @]

\* The dict _build_config returns (sync.py:172-183): the section is made when
\* the snapshot has none, the path is set when one was found and the
\* definition's own is blank, and the two flags are set to False.
BuildConfig(pl, path) ==
  [pl.config EXCEPT !.spotify = TRUE,
                    !.subfolders = FALSE,
                    !.spotiflacPath = IF path # "" /\ Strip(@) = ""
                                      THEN path ELSE @]

\* chunk.startswith("data: "), a line that is not empty and not [DONE]
\* (sync.py:211-213, 250-252): the chunks that are logged.
IsLogged(e) ==
  /\ e.type \in {"log", "report"}
  /\ e # Log(Line("blank", 0))
LoggedLines(chunks) == SelectSeq(chunks, IsLogged)

\* sync.py:215, 254: "SpotiFLAC exited with code" in the line, or the line
\* starts with "Could not launch" or "Unexpected" behind the cross mark.  Of
\* the lines the providers yield, ytmusic.py:159 is the one that does.
IsErrorMarker(e) == e = Report("unexpected")

\* What the wrapper itself put into the stream (sync.py:227, 257).
OwnReports == {Report("sync_error"), Report("playlist_not_found")}
FromProvider(chunks) == SelectSeq(chunks, LAMBDA e : e \notin OwnReports)

HasMarker(chunks) == \E i \in DOMAIN chunks : IsErrorMarker(chunks[i])

\* Mutant: the head of the log is kept, log[:5000].
FirstLines(ls) ==
  IF Len(ls) <= LogLimit THEN ls ELSE SubSeq(ls, 1, LogLimit)

\* log[-5000:] if log else "" (sync.py:269)
LastLines(ls) ==
  IF Len(ls) <= LogLimit THEN ls ELSE SubSeq(ls, Len(ls) - LogLimit + 1, Len(ls))

\* Mutant: the result is written under the id whether or not it is stored.
UpdateSyncResultAnyway(d, pid, status, ls, h) ==
  LET old == IF pid \in DOMAIN d THEN d[pid]
             ELSE [f \in Fields |-> CASE f = "config" -> Config("dict", FALSE, FALSE, "")
                                     [] f = "last_sync_log" -> NoLog
                                     [] OTHER -> PyNone]
  IN Put(d, pid, [old EXCEPT !.last_synced_at = IsoTime(h),
                             !.last_sync_status = PyStr(status),
                             !.last_sync_log = LogText(LastLines(ls))])

\* Mutant: the status and the time are written, the log is left as it was.
UpdateSyncResultKeepsLog(d, pid, status, ls, h) ==
  IF pid \in DOMAIN d
  THEN Put(d, pid, [d[pid] EXCEPT !.last_synced_at = IsoTime(h),
                                  !.last_sync_status = PyStr(status)])
  ELSE d

\* _update_sync_result (sync.py:264-270): the store after the call.
UpdateSyncResult(d, pid, status, ls, h) ==
  IF pid \in DOMAIN d
  THEN Put(d, pid, [d[pid] EXCEPT !.last_synced_at = IsoTime(h),
                                  !.last_sync_status = PyStr(status),
                                  !.last_sync_log = LogText(LastLines(ls))])
  ELSE d

\* The call of _update_sync_result that ends the run of session s.
RecordResult(s, status, ls) ==
  LET pid == run[s].pid IN
    /\ playlists' = UpdateSyncResult(playlists, pid, status, ls, now)
    /\ file' = IF pid \in DOMAIN playlists THEN Saved(playlists') ELSE file
    /\ run' = [run EXCEPT ![s].updates = IF pid \in DOMAIN playlists THEN @ + 1 ELSE @]

\* GET /api/sync/playlists/{pid}/run (main.py:324-333)
StartManual(s, pid) ==
  /\ app = "running"
  /\ s = NextSession
  /\ IF pid \notin DOMAIN playlists
     THEN /\ reply' = Answer("run", "not_found", pid)
          /\ UNCHANGED <<pc, run>>
     ELSE /\ reply' = Answer("run", "streaming", pid)
          /\ run' = [run EXCEPT ![s] = [kind |-> "manual", pid |-> pid, updates |-> 0,
                                          config |-> NoConfig]]
          /\ Goto(s, "run_start")
  /\ UNCHANGED <<provider, job_id, library_path, stream, active_jobs, procVars, taskVars,
                 countVars, cancelVars, message, registry, playlists, file, jobs, app, now, spotiflac_path,
                 fired_at, created_at>>

\* The request, while fewer than MaxRuns runs were started.
ManualRun(s, pid) == s <= MaxRuns /\ StartManual(s, pid)

\* A scheduled run of pid is in progress.
Running(pid) ==
  \E s \in Sessions :
    /\ run[s].kind = "scheduled" /\ run[s].pid = pid
    /\ pc[s] \notin {"closed", "crashed"}

\* The request comes while the scheduled run of pid is in progress.
ManualRunDuring(s, pid) == Running(pid) /\ StartManual(s, pid)

\* The trigger of the i-th job after it fired at hour h.
Refired(job, h) ==
  [job EXCEPT !.next_run_time =
     IF job.type = "interval" THEN h + UnitHours(job.unit) * job.value
     ELSE CronNext(h, job.hour, job.day_of_week)]

\* The scheduler fires a job that is due and calls _run_sync_job(pid)
\* (sync.py:122-129).  One instance of a job runs at a time; the call is
\* left out when one is running, and once MaxRuns runs were started.
Fire(i) ==
  /\ app = "running"
  /\ i \in DOMAIN jobs
  /\ jobs[i].next_run_time = now
  /\ jobs' = [jobs EXCEPT ![i] = Refired(@, now)]
  /\ fired_at' = [fired_at EXCEPT ![jobs[i].args] = now]
  /\ IF NextSession <= MaxRuns /\ ~Running(jobs[i].args)
     THEN /\ run' = [run EXCEPT ![NextSession] =
                       [kind |-> "scheduled", pid |-> jobs[i].args, updates |-> 0,
                        config |-> NoConfig]]
          /\ Goto(NextSession, "run_start")
     ELSE UNCHANGED <<pc, run>>
  /\ UNCHANGED <<provider, job_id, library_path, stream, active_jobs, procVars, taskVars,
                 countVars, cancelVars, message, registry, playlists, file, app, now, spotiflac_path,
                 reply, created_at>>

\* An hour passes.  A job that is due fires first; a run is short against
\* the hour, so the clock moves between runs.
Tick ==
  /\ now < MaxTime
  /\ NoneRunning
  /\ \A i \in DOMAIN jobs : jobs[i].next_run_time # now
  /\ now' = now + 1
  /\ UNCHANGED <<downloadVars, playlists, file, jobs, app, reply, fired_at, created_at,
                 spotiflac_path>>

\* The head of _run_sync_job (sync.py:189-202) and of run_sync_stream
\* (sync.py:225-240): the lookup, _build_config, the job id, and the
\* provider's generator.
RunPrepare(s) ==
  /\ pc[s] = "run_start"
  /\ IsSyncRun(s)
  /\ LET pid == run[s].pid IN
       IF pid \notin DOMAIN playlists
       THEN /\ IF run[s].kind = "manual"
               THEN /\ Goto(s, "error_stream")
                    /\ message' = [message EXCEPT ![s] = "playlist_not_found"]
               ELSE /\ Goto(s, "closed")
                    /\ UNCHANGED message
            /\ UNCHANGED <<provider, job_id, library_path, playlists, run>>
       ELSE IF BuildConfigRaises(playlists[pid])
       THEN /\ Goto(s, "crashed")
            /\ UNCHANGED <<provider, job_id, library_path, playlists, message, run>>
       ELSE /\ playlists' = Put(playlists, pid, AfterBuildConfig(playlists[pid], spotiflac_path))
            /\ run' = [run EXCEPT ![s].config = BuildConfig(playlists[pid], spotiflac_path)]
            /\ provider' = [provider EXCEPT ![s] =
                  IF playlists[pid].provider = PyStr("YouTube Music")
                  THEN "ytmusic" ELSE "spotiflac"]
            /\ \E id \in (IF run[s].kind = "manual" THEN FreshIds ELSE {"scheduled"}) :
                  job_id' = [job_id EXCEPT ![s] = id]
            /\ library_path' = [library_path EXCEPT ![s] = playlists[pid].config.libraryPath]
            /\ Goto(s, IF playlists[pid].provider = PyStr("YouTube Music")
                       THEN "yt_init" ELSE "sp_init")
            /\ UNCHANGED message
  /\ UNCHANGED <<stream, active_jobs, procVars, taskVars, countVars, cancelVars,
                 registry, file, jobs, app, now, spotiflac_path, reply, fired_at, created_at>>

\* except Exception (sync.py:217-219, 256-259): a scheduled run logs the
\* error; a manual run yields it, and the marker after it.
SyncExcept(s) ==
  /\ pc[s] = "lc_except"
  /\ IsSyncRun(s)
  /\ Emit(s, <<Report("sync_error")>>)
  /\ Goto(s, IF run[s].kind = "manual" THEN "done_pending" ELSE "finishing")
  /\ UNCHANGED <<provider, job_id, library_path, active_jobs, procVars, taskVars,
                 countVars, cancelVars, syncVars>>

\* The run ends (sync.py:221, 260-262): the provider's generator is done
\* with, and the result is recorded.  A manual run logs what the provider
\* yielded; a scheduled run also the error it caught.
SyncFinish(s) ==
  /\ pc[s] = "finishing"
  /\ IsSyncRun(s)
  /\ registry' = [registry EXCEPT ![s] = Pop(@, job_id[s])]
  /\ RecordResult(s,
       IF HasMarker(stream[s]) \/ Report("sync_error") \in Events(s) THEN "error" ELSE "success",
       LoggedLines(IF run[s].kind = "manual" THEN FromProvider(stream[s]) ELSE stream[s]))
  /\ Goto(s, "closed")
  /\ UNCHANGED <<provider, job_id, library_path, stream, active_jobs, procVars, taskVars,
                 countVars, cancelVars, message, jobs, app, now, spotiflac_path, reply, fired_at, created_at>>

\* The client of a manual run goes away.  Before the generator was started
\* nothing runs; in the not-found branch there is no finally.  Otherwise the
\* provider's generator is closed and the finally (sync.py:260-262) records
\* the status and the lines gathered so far: every chunk delivered, or every
\* one but the last when the generator is closed at its `yield chunk`.
SyncDisconnect(s) ==
  /\ run[s].kind = "manual"
  /\ pc[s] \notin {"idle", "closed", "aborted", "crashed", "yt_init", "sp_init"}
  /\ IF pc[s] \in {"run_start", "error_stream", "error_done"}
     THEN UNCHANGED <<registry, output_q, playlists, file, run>>
     ELSE /\ registry' = [registry EXCEPT ![s] = Pop(@, job_id[s])]
          /\ IF InTry(s)
             THEN output_q' = [output_q EXCEPT ![s] = << >>]
             ELSE UNCHANGED output_q
          /\ \E seen \in {stream[s]} \cup
                         (IF stream[s] = << >> THEN {}
                          ELSE {SubSeq(stream[s], 1, Len(stream[s]) - 1)}) :
               RecordResult(s, IF HasMarker(seen) THEN "error" ELSE "success",
                            LoggedLines(FromProvider(seen)))
  /\ Goto(s, "aborted")
  /\ UNCHANGED <<provider, job_id, library_path, stream, active_jobs, procVars,
                 cancel_event, worker, countVars, cancelVars, message, jobs, app, now, spotiflac_path,
                 reply, fired_at, created_at>>

\* Request bodies of the definitions that are run, on an hourly interval: a
\* snapshot with no spotify section, one with the sub-folder flags switched
\* on, and one that is no dict.
RunInputs ==
  { Body("YouTube Music", Config("dict", FALSE, FALSE, "")) @@ [interval_value |-> PyInt(1)],
    Body("Spotify", Config("dict", TRUE, TRUE, "")) @@ [interval_value |-> PyInt(1)],
    Body("Spotify", Config("str", FALSE, FALSE, "")) @@ [interval_value |-> PyInt(1)] }

\* The steps of a sync run and of the provider it drives.
RunStep(s) ==
  \/ RunPrepare(s) \/ SyncExcept(s) \/ SyncFinish(s)
  \/ ErrorStream(s) \/ ErrorDone(s) \/ EmitDone(s)
  \/ YtInit(s) \/ YtMkdirFailed(s) \/ YtBanner(s) \/ YtSpawn(s) \/ YtReadLine(s)
  \/ YtWait(s) \/ YtNotFound(s) \/ YtUnexpected(s) \/ YtTail(s)
  \/ SpInit(s) \/ SpMkdirFailed(s) \/ SpBanner(s) \/ SpSetup(s) \/ SpLoopTop(s)
  \/ SpGet(s) \/ SpStall(s) \/ SpLoopError(s) \/ SpFinally(s) \/ SpJoin(s) \/ SpTail(s)

\* One definition is added and run, by its trigger or by hand; the clock
\* stands still once the run has begun.
NextRun ==
  \/ \E data \in RunInputs : NextPid = 1 /\ AddPlaylist(data)
  \/ \E pid \in Pids : DeletePlaylist(pid)
  \/ NextSession = 1 /\ playlists # EmptyDict /\ Tick
  \/ \E i \in 1..NPlaylists : Fire(i)
  \/ \E s \in Sessions, pid \in Pids : ManualRun(s, pid)
  \/ \E s \in Sessions : RunStep(s)
  \/ \E s \in Sessions : ProviderStep(s)
  \/ \E s \in Sessions : SyncDisconnect(s)

SpecRun == Init /\ [][NextRun]_vars

\* The runs of definitions whose snapshots differ in the spotify section, in a
\* process that found SpotiFLAC and in one that did not (main.py:23).
PinnedPath == "/opt/SpotiFLAC"
BuildInputs ==
  RunInputs \cup
  { Body("Spotify", Config("dict", TRUE, TRUE, PinnedPath)) @@ [interval_value |-> PyInt(1)],
    Body("Spotify", Config("dict", TRUE, FALSE, " ")) @@ [interval_value |-> PyInt(1)] }

InitBuild == \E path \in {"", SpotiflacPath} : Constructed(path)

NextBuild ==
  \/ \E data \in BuildInputs : AddPlaylist(data)
  \/ NextSession = 1 /\ playlists # EmptyDict /\ Tick
  \/ \E i \in 1..NPlaylists : Fire(i)
  \/ \E s \in Sessions, pid \in Pids : ManualRun(s, pid)
  \/ \E s \in Sessions : RunPrepare(s)

SpecBuild == InitBuild /\ [][NextBuild]_vars

\* The ids a client may name in a cancel: those uuid4 returns, and the one a
\* scheduled run makes up (sync.py:199).
CancelIds == JobIds \cup {"scheduled"}

\* One definition and its run, by a provider that prints nothing, while
\* clients send cancel requests.
NextPrivate ==
  \/ \E data \in RunInputs : NextPid = 1 /\ AddPlaylist(data)
  \/ NextSession = 1 /\ playlists # EmptyDict /\ Tick
  \/ \E i \in 1..NPlaylists : Fire(i)
  \/ \E s \in Sessions, pid \in Pids : ManualRun(s, pid)
  \/ \E s \in Sessions :
       \/ RunPrepare(s) \/ SyncExcept(s) \/ SyncFinish(s) \/ EmitDone(s)
       \/ YtInit(s) \/ YtMkdirFailed(s) \/ YtBanner(s) \/ YtSpawn(s)
       \/ YtWait(s) \/ YtNotFound(s) \/ YtUnexpected(s) \/ YtTail(s)
       \/ SpInit(s) \/ SpMkdirFailed(s) \/ SpBanner(s) \/ SpSetup(s) \/ SpLoopTop(s)
       \/ SpGet(s) \/ SpStall(s) \/ SpFinally(s) \/ SpJoin(s) \/ SpTail(s)
       \/ ProcExit(s) \/ WorkerEnd(s) \/ WorkerSentinel(s)
  \/ \E s \in Sessions : SyncDisconnect(s)
  \/ \E c \in Cancellers, id \in CancelIds, lp \in {""} \cup LibPaths : CancelRequest(c, id, lp)

SpecPrivate == Init /\ [][NextPrivate]_vars

\* One definition, its scheduled run and a manual run that overlaps it, by
\* providers that print nothing.
NextOverlap ==
  \/ \E data \in RunInputs : NextPid = 1 /\ AddPlaylist(data)
  \/ NextSession = 1 /\ playlists # EmptyDict /\ Tick
  \/ \E i \in 1..NPlaylists : Fire(i)
  \/ \E s \in Sessions, pid \in Pids : ManualRunDuring(s, pid)
  \/ \E s \in Sessions :
       \/ RunPrepare(s) \/ SyncExcept(s) \/ SyncFinish(s) \/ EmitDone(s)
       \/ YtInit(s) \/ YtMkdirFailed(s) \/ YtBanner(s) \/ YtSpawn(s)
       \/ YtWait(s) \/ YtNotFound(s) \/ YtUnexpected(s) \/ YtTail(s)
       \/ SpInit(s) \/ SpMkdirFailed(s) \/ SpBanner(s) \/ SpSetup(s) \/ SpLoopTop(s)
       \/ SpGet(s) \/ SpStall(s) \/ SpFinally(s) \/ SpJoin(s) \/ SpTail(s)
       \/ ProcExit(s) \/ WorkerEnd(s) \/ WorkerSentinel(s)
  \/ \E s \in Sessions : SyncDisconnect(s)

SpecOverlap == Init /\ [][NextOverlap]_vars

\* A request for a YouTube Music download, made while others may be running.
StartBeside(s) ==
  /\ s = NextSession
  /\ \E path \in LibPaths, id \in FreshIds : Request(s, "ok", "YouTube Music", path, id)

\* Downloads side by side into one library path, by a yt-dlp that prints
\* nothing and leaves partial files, and the cancel handler.
NextBeside ==
  \/ \E s \in Sessions : StartBeside(s)
  \/ \E s \in Sessions :
       \/ LifecycleStart(s) \/ LifecycleExcept(s) \/ EmitDone(s) \/ LifecycleFinally(s)
       \/ YtInit(s) \/ YtMkdirFailed(s) \/ YtBanner(s) \/ YtSpawn(s)
       \/ YtWait(s) \/ YtNotFound(s) \/ YtUnexpected(s) \/ YtTail(s)
       \/ ProcPartial(s) \/ ProcExit(s)
  \/ \E c \in Cancellers : CancelStep(c)

SpecBeside == Init /\ [][NextBeside]_vars

\* A definition on an interval of 6 hours, and the updates made to it.
ClockInputs ==
  { Body("YouTube Music", Config("dict", FALSE, FALSE, ""))
      @@ [interval_value |-> PyInt(6), interval_unit |-> PyStr("hours")] }
ClockUpdates ==
  { [name |-> PyStr("b")], [enabled |-> PyBool(FALSE)], [enabled |-> PyBool(TRUE)] }

\* The definition's life over the hours: it is added, updated, fired and
\* run (by a provider that prints nothing), and the process is restarted.
NextClock ==
  \/ \E data \in ClockInputs : NextPid = 1 /\ AddPlaylist(data)
  \/ \E pid \in Pids, data \in ClockUpdates : UpdatePlaylist(pid, data)
  \/ Restart
  \/ Startup
  \/ Tick
  \/ \E i \in 1..NPlaylists : Fire(i)
  \/ \E s \in Sessions :
       \/ RunPrepare(s) \/ SyncExcept(s) \/ SyncFinish(s) \/ EmitDone(s)
       \/ YtInit(s) \/ YtMkdirFailed(s) \/ YtBanner(s) \/ YtSpawn(s) \/ YtWait(s)
       \/ YtNotFound(s) \/ YtUnexpected(s) \/ YtTail(s) \/ ProcExit(s)

SpecClock == Init /\ [][NextClock]_vars

\* C1: a stream that completes carries the [DONE] marker exactly once, as its
\* last event, however the job ended; at no time does an event follow it.
C1_DoneOnceLast ==
  \A s \in Sessions :
    /\ Count(s, "DONE") <= 1
    /\ \A i \in DOMAIN stream[s] : stream[s][i].type = "DONE" => i = Len(stream[s])
    /\ Completed(s) => Count(s, "DONE") = 1

\* A job that was cancelled and whose stream then completed.
C1_Witness ==
  \E s \in Sessions : Completed(s) /\ job_id[s] \in cancelled_ids /\ Count(s, "DONE") = 1

\* C2 (as claimed): every completed job stream carries exactly one status
\* event with success, downloaded, errors and skipped, before the marker.
C2_OneFullStatus ==
  \A s \in Sessions :
    (Completed(s) /\ Announced(s)) =>
      /\ Count(s, "status") = 1
      /\ \A i \in DOMAIN stream[s] :
           stream[s][i].type = "status" =>
             /\ DOMAIN stream[s][i] = {"type", "success", "downloaded", "errors", "skipped"}
             /\ \E j \in DOMAIN stream[s] : j > i /\ stream[s][j].type = "DONE"

\* C3 (as claimed): the completed stream of a job that cancel signalled (the
\* soft signal reached its handle) and answered "cancelled" for closes with
\* the report "cancelled", and carries at most one status event.
Signalled(s) == term_sent[s] \/ cancel_event[s]

C3_CancelledReport ==
  \A s \in Sessions :
    (Completed(s) /\ job_id[s] \in cancelled_ids /\ Signalled(s)) =>
      /\ "cancelled" \in Reports(s)
      /\ Reports(s) \cap {"success", "exit_code", "errors", "complete_failure"} = {}
      /\ Count(s, "status") <= 1

\* C4: a cancel of an id that is not in the registry answers Not-Found,
\* signals no handle, removes no file and leaves the registry as it was.
C4_UnknownCancelFrame ==
  [][\A c \in Cancellers, id \in JobIds, lp \in {""} \cup LibPaths :
       (CancelRequest(c, id, lp) /\ id \notin DOMAIN active_jobs) =>
         /\ cresult'[c].status = "NotFound"
         /\ UNCHANGED <<active_jobs, term_sent, kill_sent, cancel_event, partials, proc>>]_vars

\* Not-Found was answered while another job was registered with a partial
\* file on disk.
C4_Witness ==
  \E c \in Cancellers :
    /\ cresult[c].status = "NotFound"
    /\ DOMAIN active_jobs # {}
    /\ partials # {}

\* C5: once cancel has answered "cancelled" for an id, the id is not in the
\* registry, then or at any later time.
C5_CancelledStaysOut == cancelled_ids \cap DOMAIN active_jobs = {}

\* Cancel has returned and the stream of that job is still in its output loop.
C5_Witness ==
  \E s \in Sessions : job_id[s] \in cancelled_ids /\ pc[s] \in {"yt_read", "sp_get"}

\* C6 (as claimed): a register of an id that is present leaves the existing
\* entry and its handle unchanged.
C6_RegisterKeepsEntry ==
  [][\A id \in JobIds :
       (id \in DOMAIN active_jobs /\ id \in DOMAIN active_jobs') =>
          active_jobs'[id] = active_jobs[id]]_vars

\* C7: when a stream has ended, by completion or by client disconnect, its
\* job id is not in the registry.
C7_EndedNotRegistered ==
  \A s \in Sessions : pc[s] \in {"closed", "aborted"} => job_id[s] \notin DOMAIN active_jobs

\* The client went away while the provider was running; and a stream that
\* closed after an error raised with the job registered.
C7_Witness ==
  \E s \in Sessions :
    /\ pc[s] = "aborted"
    /\ proc[s] = "running" \/ worker[s] = "running"

\* C8 (as claimed): while the output loop of a registered job runs, the job's
\* entry is in the registry.
OutputLoop(s) ==
  /\ pc[s] \in {"yt_read", "sp_loop", "sp_get"}
  /\ proc[s] = "running" \/ worker[s] = "running"

C8_RegisteredWhileLooping ==
  \A s \in Sessions : OutputLoop(s) => job_id[s] \in DOMAIN active_jobs

\* C9 (as claimed): the closing report of a job is a success report exactly
\* when there was no fatal error, no cancellation and no complete failure
\* (errors > 0, downloaded = 0, attempted > 0).
CompleteFailure(s) == errors[s] > 0 /\ downloaded[s] = 0 /\ total_count[s] > 0
Fatal(s) ==
  IF provider[s] = "ytmusic" THEN returncode[s] \notin {0, 1} ELSE had_fatal_error[s]
ClosingReports == {"success", "exit_code", "cancelled", "complete_failure", "errors"}

C9_SuccessRule ==
  \A s \in Sessions :
    (Completed(s) /\ Reports(s) \cap ClosingReports # {} /\ "interrupted" \notin Reports(s)) =>
      ("success" \in Reports(s)) <=> (~Fatal(s) /\ ~was_cancelled[s] /\ ~CompleteFailure(s))

\* C10 (as claimed): a stream that is open can always take a step of its
\* own, a timeout included: it never depends on the provider to move on.
Open(s) == pc[s] \notin {"idle", "closed", "aborted"}

C10_NeverWaitsOnProvider ==
  \A s \in Sessions : Open(s) => ENABLED SessionStep(s)

\* C18: a start request whose destination path is empty or not absolute is
\* rejected before anything is spawned: no job id is allocated or announced,
\* no registry entry is created, no provider is started, and the stream is
\* the error report followed by the end-of-stream marker.
PathRejected(s) == message[s] \in {"empty_path", "relative_path"}

C18_PathRejectedEarly ==
  \A s \in Sessions :
    PathRejected(s) =>
      /\ job_id[s] = NoId
      /\ provider[s] = "none"
      /\ proc[s] = "none" /\ worker[s] = "none"
      /\ \A k \in DOMAIN active_jobs : active_jobs[k].process # s
      /\ registry[s] = EmptyDict
      /\ \/ pc[s] = "error_stream" /\ stream[s] = << >>
         \/ pc[s] = "error_done" /\ stream[s] = <<Report(message[s])>>
         \/ pc[s] = "closed" /\ stream[s] = <<Report(message[s]), DoneEvent>>
         \/ pc[s] = "aborted" /\ Len(stream[s]) <= 1 /\ ~Announced(s)

\* A request with a relative path was answered in full.
C18_Witness ==
  \E s \in Sessions :
    /\ message[s] = "relative_path"
    /\ Completed(s)
    /\ stream[s] = <<Report("relative_path"), DoneEvent>>

\* The jobs that run a definition.
TriggersOf(js, pid) == {i \in DOMAIN js : js[i].args = pid}
Enabled(pid) == Truthy(playlists[pid].enabled)

\* C11 (as claimed): after any sequence of add, update and delete, every
\* Sync Definition has at most one trigger, and an update that enables a
\* disabled definition leaves it with exactly one trigger.
AtMostOneTrigger == \A pid \in Pids : Cardinality(TriggersOf(jobs, pid)) <= 1

ReEnabling(pid) ==
  /\ pid \in DOMAIN playlists
  /\ ~Enabled(pid)
  /\ \E data \in UpdateInputs : UpdatePlaylist(pid, data)
  /\ Truthy(playlists'[pid].enabled)

C11_OneTriggerOnReEnable ==
  /\ []AtMostOneTrigger
  /\ [][\A pid \in Pids : ReEnabling(pid) => Cardinality(TriggersOf(jobs', pid)) = 1]_vars

\* C12: in every reachable state a Sync Definition whose enabled flag is
\* false has no trigger.
C12_DisabledHasNoTrigger ==
  \A pid \in DOMAIN playlists : ~Enabled(pid) => TriggersOf(jobs, pid) = {}

\* An update has just disabled a definition that was added enabled, while
\* another definition keeps its trigger.
C12_Witness ==
  \E pid \in DOMAIN playlists :
    /\ reply = Answer("update", "ok", pid)
    /\ ~Enabled(pid)
    /\ playlists[pid].interval_value = PyInt(24)
    /\ \E other \in DOMAIN playlists : TriggersOf(jobs, other) # {}

\* C13: when process startup completes, every enabled Sync Definition loaded
\* from the store has exactly one trigger and no disabled one has a trigger.
C13_StartupReconciles ==
  [][(app = "constructed" /\ app' = "running") =>
       \A pid \in DOMAIN playlists' :
         Cardinality(TriggersOf(jobs', pid)) =
           (IF Truthy(playlists'[pid].enabled) THEN 1 ELSE 0)]_vars

\* A startup has completed over a store with an enabled and a disabled
\* definition.
C13_Witness ==
  /\ reply = Answer("startup", "ok", 0)
  /\ \E p, q \in DOMAIN playlists : Enabled(p) /\ ~Enabled(q)
  /\ Len(jobs) = 1

\* C19: add with a missing required field fails with a validation error,
\* update and delete of an unknown identifier fail with Not-Found, and each
\* leaves the in-memory store, the file and the jobs as they were.
C19_ErrorsChangeNothing ==
  [][/\ \A data \in AddInputs :
          (AddPlaylist(data) /\ Required \ DOMAIN data # {}) =>
             /\ reply'.status = "validation_error"
             /\ UNCHANGED <<playlists, file, jobs>>
     /\ \A pid \in Pids \ DOMAIN playlists :
          /\ (\E data \in UpdateInputs : UpdatePlaylist(pid, data)) =>
                /\ reply' = Answer("update", "not_found", pid)
                /\ UNCHANGED <<playlists, file, jobs>>
          /\ DeletePlaylist(pid) =>
                /\ reply' = Answer("delete", "not_found", pid)
                /\ UNCHANGED <<playlists, file, jobs>>]_vars

\* A definition was deleted and a second delete of it answered Not-Found
\* while another definition and its job were in place.
C19_Witness ==
  \E pid \in Pids :
    /\ reply = Answer("delete", "not_found", pid)
    /\ created_at[pid] # Never
    /\ playlists # EmptyDict
    /\ jobs # << >>

\* C15 (as claimed): whatever mutations led to the definitions in memory,
\* loading the store from the file yields the same definitions with the
\* same field values.
C15_RoundTrip == Loaded(file) = playlists

\* The definition is enabled on an interval of 6 hours.
SixHourly(pid) ==
  /\ Enabled(pid)
  /\ playlists[pid].schedule_type = PyStr("interval")
  /\ playlists[pid].interval_unit = PyStr("hours")
  /\ IntOf(playlists[pid].interval_value) = 6

\* C14 (as claimed): while the process is up, the next fire time of an
\* enabled definition on an interval of 6 hours is exactly 6 hours after its
\* last fire, or after its creation if it has not fired, whatever updates and
\* restarts happened in between.
C14_NextFireSixHours ==
  \A pid \in DOMAIN playlists :
    (app = "running" /\ SixHourly(pid)) =>
      \E i \in TriggersOf(jobs, pid) :
        jobs[i].next_run_time =
          6 + (IF fired_at[pid] # Never THEN fired_at[pid] ELSE created_at[pid])

\* A sync run of session s has ended, and its head ran: it got as far as
\* _build_config.
RunEnded(s) ==
  /\ IsSyncRun(s)
  /\ \/ pc[s] = "crashed"
     \/ pc[s] \in {"closed", "aborted"} /\ job_id[s] # NoId

\* C16 (as claimed): every run of a stored Sync Definition, scheduled or
\* manual, updates the definition's last-run fields exactly once, at the end
\* of the run, on every code path: never before the end, and once when the
\* run has ended, a run that was interrupted or that failed while it was
\* prepared included.
C16_ResultRecordedOnce ==
  \A s \in Sessions :
    IsSyncRun(s) =>
      /\ run[s].updates <= 1
      /\ run[s].updates = 1 => pc[s] \in {"closed", "aborted"}
      /\ (RunEnded(s) /\ run[s].pid \in DOMAIN playlists) => run[s].updates = 1

\* What the session of a run went through: a launch failure, a fatal error,
\* or a terminal status that is not a success.
FatalReports == {"not_found", "unexpected", "mkdir_failed", "exit_code", "engine_error",
                 "stall", "read_error", "complete_failure", "errors", "sync_error"}
SessionFailed(s) ==
  \/ Reports(s) \cap FatalReports # {}
  \/ \E e \in Events(s) : e.type = "status" /\ ~e.success
  \/ provider[s] = "ytmusic" /\ proc[s] = "exited" /\ returncode[s] \notin {0, 1}

\* C17 (as claimed): a run that went to its end is recorded with status
\* error if its session produced a fatal-error marker, a launch failure or
\* an unsuccessful terminal status, and with status success otherwise.
C17_RecordedStatus ==
  \A s \in Sessions :
    (IsSyncRun(s) /\ Completed(s) /\ run[s].updates = 1 /\ run[s].pid \in DOMAIN playlists) =>
      playlists[run[s].pid].last_sync_status =
        PyStr(IF SessionFailed(s) THEN "error" ELSE "success")

\* The protocol of a direct start: the job_id event first, then data and
\* meta events, then one terminal status, then the marker.
DirectProtocol(seq, id) ==
  /\ Len(seq) >= 3
  /\ seq[1] = JobIdEvent(id)
  /\ seq[Len(seq)] = DoneEvent
  /\ seq[Len(seq) - 1].type = "status"
  /\ \A i \in 2..(Len(seq) - 2) : seq[i].type \in {"log", "meta", "report"}

\* C20 (as claimed): the stream of a manual sync run that went to its end
\* follows the protocol of a direct start.
C20_ManualRunProtocol ==
  \A s \in Sessions :
    (run[s].kind = "manual" /\ Completed(s) /\ job_id[s] # NoId) =>
      DirectProtocol(stream[s], job_id[s])


\* The launch failed: create_subprocess_exec raised (ytmusic.py:95, 154-161),
\* or SpotiFLAC(...) raised before it printed anything (spotify.py:153, 166).
LaunchFailed(s) ==
  \/ /\ provider[s] = "ytmusic"
     /\ proc[s] = "none"
     /\ \/ pc[s] \in {"yt_not_found", "yt_unexpected"}
        \/ Reports(s) \cap {"not_found", "unexpected"} # {}
  \/ /\ provider[s] = "spotiflac"
     /\ emitted[s] = 0
     /\ worker[s] \in {"finally", "finished"}
     /\ \/ \E i \in DOMAIN output_q[s] : output_q[s][i] = ExceptionMsg
        \/ "engine_error" \in Reports(s)

\* C21 (as claimed): when the launch failed, the stream carries no line of
\* the provider, the job is not in the registry, and a stream that went to
\* its end reports a fatal outcome.
C21_LaunchFailure ==
  \A s \in Sessions :
    LaunchFailed(s) =>
      /\ \A e \in Events(s) : e.type = "log" => e.line.kind \in {"banner", "blank"}
      /\ job_id[s] \notin DOMAIN active_jobs
      /\ Completed(s) => Reports(s) \cap FatalReports # {}


\* What the translator of a provider yields for a sequence of raw lines.
RECURSIVE Echo(_, _)
Echo(tag, lines) ==
  IF lines = << >> THEN << >>
  ELSE (IF tag = "ytmusic" THEN YtEvents(Head(lines)) ELSE SpEvents(Head(lines)))
         \o Echo(tag, Tail(lines))

\* The part of a stream that echoes raw lines.
LoopEvents(s) ==
  SelectSeq(stream[s], LAMBDA e :
    \/ e.type = "log" /\ e.line.kind \notin {"banner", "blank"}
    \/ e = Meta("progress"))

IsPrefix(a, b) == Len(a) <= Len(b) /\ a = SubSeq(b, 1, Len(a))

\* The client is connected and the job was neither cancelled nor stalled.
Uninterrupted(s) ==
  /\ pc[s] # "aborted"
  /\ ~Signalled(s) /\ ~was_cancelled[s]
  /\ "stall" \notin Reports(s)

\* C22 (as claimed): while the client stays connected and the job is neither
\* cancelled nor stalled, the stream echoes the raw lines in the order the
\* provider printed them, none twice, and a stream that went to its end has
\* echoed every one of them.
C22_OrderPreserved ==
  \A s \in Sessions :
    Uninterrupted(s) =>
      /\ IsPrefix(LoopEvents(s), Echo(provider[s], produced[s]))
      /\ Completed(s) => LoopEvents(s) = Echo(provider[s], produced[s])


\* Cancel call c waits for the child of session s.
WaitsFor(c, s) == cpc[c] = "wait" /\ cjob[c].process = s

\* C23: a child is force-killed only after it was sent the terminate signal,
\* by a cancel call whose wait ran out with the child still alive; and a
\* cancel call that waits can always go on to its answer.
C23_TerminateThenKill ==
  /\ [](\A s \in Sessions : kill_sent[s] => term_sent[s])
  /\ [][\A s \in Sessions :
          (kill_sent'[s] /\ ~kill_sent[s]) =>
            /\ term_sent[s]
            /\ proc[s] = "running"
            /\ \E c \in Cancellers : WaitsFor(c, s) /\ cresult'[c].status = "cancelled"]_vars
  /\ [](\A c \in Cancellers :
          cpc[c] = "wait" => ENABLED (CancelWaited(c) \/ CancelTimeout(c)))

\* A cancel call has answered after it force-killed the child.
C23_Witness ==
  \E s \in Sessions, c \in Cancellers :
    /\ provider[s] = "ytmusic"
    /\ term_sent[s] /\ kill_sent[s]
    /\ cpc[c] = "idle" /\ cresult[c].status = "cancelled"


\* C24: a cancel call that answers "cancelled" returns the number of partial
\* files that went in that step; none goes when the provider tag of the job
\* is not ytmusic, and none goes in any other step.
C24_SweepCount ==
  [][LET swept  == partials \ partials'
         waited == {c \in Cancellers : cpc[c] # "idle" /\ cpc'[c] = "idle"}
         atonce == {id \in (DOMAIN active_jobs) \ (DOMAIN active_jobs') :
                      id \in cancelled_ids' /\ cpc' = cpc}
     IN  /\ \A c \in waited :
               /\ cresult'[c].status = "cancelled"
               /\ cresult'[c].partial_files_deleted = Cardinality(swept)
               /\ cjob[c].provider # "ytmusic" => swept = {}
         /\ \A id \in atonce :
               /\ \E c \in Cancellers :
                    /\ cresult'[c].status = "cancelled"
                    /\ cresult'[c].partial_files_deleted = Cardinality(swept)
               /\ active_jobs[id].provider # "ytmusic" => swept = {}
         /\ (waited = {} /\ atonce = {}) => swept = {}]_vars

\* A job of the other provider was cancelled with a partial file lying under
\* its library path, and the call answered 0.
C24_Witness ==
  \E s \in Sessions, c \in Cancellers :
    /\ provider[s] = "spotiflac"
    /\ job_id[s] \in cancelled_ids
    /\ PartialsUnder(library_path[s]) # {}
    /\ cresult[c] = [status |-> "cancelled", partial_files_deleted |-> 0]


\* C25 (as claimed): a scheduled run never ends with an exception of its
\* own; an exception it caught is in the log and the status it recorded; and
\* the trigger of its definition is in place, set to a later time.
C25_ScheduledRunContained ==
  \A s \in Sessions :
    run[s].kind = "scheduled" =>
      LET pid == run[s].pid IN
        /\ pc[s] # "crashed"
        /\ (pc[s] = "closed" /\ "sync_error" \in Reports(s) /\ pid \in DOMAIN playlists) =>
             /\ playlists[pid].last_sync_status = PyStr("error")
             /\ \E i \in DOMAIN playlists[pid].last_sync_log.lines :
                  playlists[pid].last_sync_log.lines[i] = Report("sync_error")
        /\ (pid \in DOMAIN playlists /\ Enabled(pid)) =>
             \E i \in TriggersOf(jobs, pid) : jobs[i].next_run_time > now


\* The step is the translator of session s taking a text.
YtTakes(s) ==
  pc[s] = "yt_read" /\ pipe[s] # << >> /\ pipe'[s] = Tail(pipe[s])
SpTakes(s) ==
  /\ pc[s] = "sp_get" /\ pc'[s] = "sp_loop"
  /\ output_q[s] # << >> /\ Head(output_q[s]).kind = "raw"

\* C26 (as claimed): a text that matches a failure marker is treated as the
\* failure, whatever progress marker it matches too: "ERROR:" of yt-dlp
\* counts an error, "Error:" of SpotiFLAC is fatal, and "[X] Failed all
\* services" counts an error.
C26_FailureMarkerFirst ==
  [][\A s \in Sessions :
       /\ (YtTakes(s) /\ "error" \in Head(pipe[s]).marks) =>
            /\ errors'[s] = errors[s] + 1
            /\ downloaded'[s] = downloaded[s]
       /\ (SpTakes(s) /\ "fatal" \in Head(output_q[s]).marks) =>
            /\ had_fatal_error'[s]
            /\ downloaded'[s] = downloaded[s]
       /\ (SpTakes(s) /\ Head(output_q[s]).marks \cap {"fatal", "failed"} = {"failed"}) =>
            /\ errors'[s] = errors[s] + 1
            /\ downloaded'[s] = downloaded[s]]_vars


\* The step is an update of a stored definition.
UpdateStep ==
  /\ reply'.op = "update" /\ reply'.status # "not_found"
  /\ <<app, now, pc, fired_at>>' = <<app, now, pc, fired_at>>

FrameFields == Fields \ UpdateKeys

\* C27: an update leaves the identifier, URL, provider, snapshot, subfolder
\* and last-run fields of its definition as they were, and every other
\* definition and its trigger too.
C27_UpdateFrame ==
  [][UpdateStep =>
       /\ DOMAIN playlists' = DOMAIN playlists
       /\ \A pid \in DOMAIN playlists :
            /\ \A f \in FrameFields : playlists'[pid][f] = playlists[pid][f]
            /\ pid # reply'.pid =>
                 /\ playlists'[pid] = playlists[pid]
                 /\ {jobs'[i] : i \in TriggersOf(jobs', pid)}
                      = {jobs[i] : i \in TriggersOf(jobs, pid)}]_vars

\* An update whose body carried a URL too has renamed a definition, next to
\* another definition that has a trigger.
C27_Witness ==
  \E pid, q \in DOMAIN playlists :
    /\ q # pid
    /\ reply = Answer("update", "ok", pid)
    /\ playlists[pid].name = PyStr("b")
    /\ playlists[pid].url = PyStr("u")
    /\ TriggersOf(jobs, q) # {}


\* C28: an identifier that is not in the store has no trigger and is not in
\* the file either; an identifier enters the store only when it is new, so
\* a definition that was deleted is not made again by a run that was in
\* flight, by a firing trigger or by anything else.
C28_DeletedStaysDeleted ==
  /\ [](\A pid \in Pids :
          pid \notin DOMAIN playlists =>
            /\ TriggersOf(jobs, pid) = {}
            /\ pid \notin DOMAIN Loaded(file))
  /\ [][\A pid \in Pids :
          (pid \in DOMAIN playlists' /\ pid \notin DOMAIN playlists) =>
            created_at[pid] = Never]_vars

\* A run of a definition went to its end, with lines to record, after the
\* definition was deleted.
C28_Witness ==
  \E s \in Sessions :
    /\ IsSyncRun(s)
    /\ created_at[run[s].pid] # Never
    /\ run[s].pid \notin DOMAIN playlists
    /\ job_id[s] # NoId
    /\ pc[s] \in {"closed", "aborted"}
    /\ LoggedLines(stream[s]) # << >>


\* The lines a run that went to its end has gathered.
RunLog(s) == LoggedLines(IF run[s].kind = "manual" THEN FromProvider(stream[s]) ELSE stream[s])

\* The last n elements of a sequence, all of them if it has fewer.
Suffix(ls, n) ==
  LET k == IF Len(ls) < n THEN Len(ls) ELSE n
  IN [i \in 1..k |-> ls[Len(ls) - k + i]]

\* C29: a stored log is never longer than the limit, and the one a run that
\* goes to its end records is the end of the run's log, cut to the limit.
C29_LogBounded ==
  /\ [](\A pid \in DOMAIN playlists : Len(playlists[pid].last_sync_log.lines) <= LogLimit)
  /\ [][\A s \in Sessions :
          (IsSyncRun(s) /\ pc'[s] = "closed" /\ run'[s].updates = run[s].updates + 1
             /\ run[s].pid \in DOMAIN playlists') =>
            playlists'[run[s].pid].last_sync_log = LogText(Suffix(RunLog(s), LogLimit))]_vars

\* A run has recorded a log that was longer than the limit.
C29_Witness ==
  \E s \in Sessions :
    /\ IsSyncRun(s) /\ pc[s] = "closed" /\ run[s].updates = 1
    /\ run[s].pid \in DOMAIN playlists
    /\ Len(RunLog(s)) > LogLimit
    /\ Len(playlists[run[s].pid].last_sync_log.lines) = LogLimit

\* C30: the configuration built for a run has the artist and album sub-folders
\* off; it carries the definition's own path when that is not blank, the found
\* path when one was found and the definition's is blank, and the definition's
\* blank path when none was found.
C30_BuiltConfig ==
  [][\A s \in Sessions :
       (run'[s].config # run[s].config /\ run'[s].config.t = "dict") =>
         LET own == playlists[run[s].pid].config.spotiflacPath
             c   == run'[s].config
         IN  /\ c.subfolders = FALSE
             /\ Strip(own) # "" => c.spotiflacPath = own
             /\ (Strip(own) = "" /\ spotiflac_path # "") => c.spotiflacPath = spotiflac_path
             /\ (Strip(own) = "" /\ spotiflac_path = "") => c.spotiflacPath = own]_vars
\* A run of a definition that pins its path, in a process that found SpotiFLAC.
C30_Witness ==
  \E s \in Sessions :
    /\ spotiflac_path = SpotiflacPath
    /\ run[s].config.t = "dict"
    /\ run[s].config.spotiflacPath = PinnedPath
    /\ run[s].config.subfolders = FALSE
\* C31: the job of a sync run is never in the registry of the client's jobs,
\* and every cancel call is answered Not-Found and leaves the run's process,
\* worker, flags, registry and position as they are.
C31_PrivateRegistry ==
  /\ [](\A s \in Sessions : IsSyncRun(s) => job_id[s] \notin DOMAIN active_jobs)
  /\ [][\A c \in Cancellers :
          cresult'[c] # cresult[c] =>
            /\ cresult'[c].status = "NotFound"
            /\ UNCHANGED <<pc, proc, term_sent, kill_sent, cancel_event, worker, registry>>]_vars
\* A cancel call was answered while the process of a sync run was running and
\* registered in the run's own registry.
C31_Witness ==
  \E s \in Sessions, c \in Cancellers :
    /\ IsSyncRun(s)
    /\ job_id[s] \in DOMAIN registry[s]
    /\ proc[s] = "running"
    /\ cresult[c].status = "NotFound"

\* C32: when the flag of a task-backed job is set and its output loop, waiting
\* for a line, leaves the wait although no line has come, the loop has seen
\* the flag: the job is marked cancelled.
C32_FlagObserved ==
  [][\A s \in Sessions :
       (cancel_event[s] /\ pc[s] = "sp_get" /\ output_q[s] = << >> /\ pc'[s] # pc[s]
          /\ pc'[s] # "aborted") =>
         was_cancelled'[s]]_vars

\* The last-run fields of a definition.
LastRun(pl) == <<pl.last_synced_at, pl.last_sync_status, pl.last_sync_log>>

\* The last-run fields a run may write at hour h: the log it has gathered
\* from its own chunks, all of them or all but the last, and the status they
\* give it: error for a marker among them, and for an exception once its
\* handler has run to its end.
Gathered(s, h) ==
  LET own(seen) == IF run[s].kind = "manual" THEN FromProvider(seen) ELSE seen
      st(seen)  == {IF HasMarker(seen) THEN "error" ELSE "success"} \cup
                   (IF Report("sync_error") \in {seen[i] : i \in DOMAIN seen}
                    THEN {"error"} ELSE {})
      cuts      == {stream[s]} \cup
                   (IF stream[s] = << >> THEN {}
                    ELSE {SubSeq(stream[s], 1, Len(stream[s]) - 1)})
  IN UNION {{<<IsoTime(h), PyStr(x), LogText(Suffix(LoggedLines(own(seen)), LogLimit))>> :
               x \in st(seen)} : seen \in cuts}

\* C33: whenever the last-run fields of a definition change, the three of them
\* are what one run has gathered: the run that writes in that step.
C33_LastWriterWins ==
  [][\A pid \in (DOMAIN playlists) \cap (DOMAIN playlists') :
       LastRun(playlists'[pid]) # LastRun(playlists[pid]) =>
         \E s \in Sessions :
           /\ run[s].pid = pid
           /\ run'[s].updates = run[s].updates + 1
           /\ LastRun(playlists'[pid]) \in Gathered(s, now)]_vars
\* The scheduled and the manual run of one definition have both written, and
\* the fields are those of the run that wrote an error.
C33_Witness ==
  \E s, t \in Sessions :
    /\ run[s].kind = "scheduled" /\ run[t].kind = "manual"
    /\ run[s].pid = run[t].pid
    /\ run[s].updates = 1 /\ run[t].updates = 1
    /\ run[s].pid \in DOMAIN playlists
    /\ playlists[run[s].pid].last_sync_status = PyStr("error")
    /\ HasMarker(stream[s]) # HasMarker(stream[t])

\* The provider of session s is still to be started.
Ahead(s) == pc[s] \in {"yt_init", "yt_banner", "yt_spawn", "sp_init", "sp_banner", "sp_setup"}

\* C34: from the job-id event to the end of the stream, a job that was not
\* cancelled and whose provider is still to start or is running is in the
\* registry, so that a cancel naming it is not answered Not-Found.
C34_CancellableOnceAnnounced ==
  \A s \in Sessions :
    (/\ ~IsSyncRun(s)
     /\ Announced(s)
     /\ pc[s] \notin {"closed", "aborted"}
     /\ job_id[s] \notin cancelled_ids
     /\ Ahead(s) \/ proc[s] = "running" \/ worker[s] = "running") =>
      job_id[s] \in DOMAIN active_jobs

\* C35: a partial file of a job whose process is running goes only in a step
\* in which that job is, or already was, cancelled.
C35_SweepOwnFiles ==
  [][\A s \in partials \ partials' :
       proc[s] = "running" => job_id[s] \in cancelled_ids']_vars

\* C36: the step that builds the configuration of a run leaves every stored
\* definition, its configuration snapshot included, as it was.
C36_SnapshotUnchanged ==
  [][(\E s \in Sessions : run'[s].config # run[s].config) => playlists' = playlists]_vars

\* C37: a child process of a client job that is running, and was not sent the
\* kill signal, has its entry in the registry of the client's jobs.
C37_RunningChildRegistered ==
  \A s \in Sessions :
    (~IsSyncRun(s) /\ proc[s] = "running" /\ ~kill_sent[s]) =>
      job_id[s] \in DOMAIN active_jobs

\* C38: after the session of a task-backed job has ended, a worker that has
\* its sentinel left to put is able to put it.
C38_WorkerNotBlocked ==
  \A s \in Sessions :
    (pc[s] \in {"closed", "aborted"} /\ worker[s] = "finally") => ENABLED WorkerSentinel(s)

\* C39: while the process serves requests, every stored definition that is
\* enabled has exactly one trigger.
C39_EnabledHasTrigger ==
  app = "running" =>
    \A pid \in DOMAIN playlists :
      Enabled(pid) => Cardinality(TriggersOf(jobs, pid)) = 1

\* C40: a manual run that records the status success while its provider is
\* still running has delivered the end-of-stream marker.
C40_SuccessOnlyAtEnd ==
  [][\A s \in Sessions :
       (/\ run[s].kind = "manual"
        /\ proc[s] = "running" \/ worker[s] = "running"
        /\ run'[s].updates = run[s].updates + 1
        /\ run[s].pid \in DOMAIN playlists'
        /\ playlists'[run[s].pid].last_sync_status = PyStr("success")) =>
         DoneEvent \in Events(s)]_vars

====
